---- MODULE Spec2Model ----
(***************************************************************************)
(* A model of the street-coverage engine of every-street:                  *)
(*   - WacoStreetsAnalyzer (waco_streets_analyzer.py): segmentation of the *)
(*     street network, route matching, the traveled set, the progress;     *)
(*   - GeoJSONHandler (geojson_handler.py): the monthly archive and the    *)
(*     date filter;                                                        *)
(*   - the endpoints of app.py that drive them.                            *)
(*                                                                         *)
(* Coordinates are pairs of integers.  The street file is in geographic    *)
(* coordinates; to_crs(utm) is modelled by ToUtm, an affine map into a     *)
(* disjoint range (a false easting and a scale), and its inverse FromUtm.  *)
(* The streets of the modelled networks are axis-aligned, so the length of *)
(* a projected segment is an integer.  A coverage percentage is the        *)
(* rational <<numerator, denominator>>.                                    *)
(***************************************************************************)
EXTENDS Integers, Sequences, FiniteSets, TLC

\* ------------------------------------------------------------------ bounds
\* The longest batch of routes handed to update_progress.
MaxBatch == 3
\* cpu_count() ranges over 1..MaxCores.
MaxCores == 3

\* ---------------------------------------------------------------- geometry
\* to_crs(utm_crs): metres per coordinate unit and the false easting.
MetersPerUnit == 50
UtmFalseEasting == 500

ToUtm(p) == <<UtmFalseEasting + MetersPerUnit * p[1], MetersPerUnit * p[2]>>
FromUtm(p) == <<(p[1] - UtmFalseEasting) \div MetersPerUnit, p[2] \div MetersPerUnit>>

Abs(n) == IF n < 0 THEN -n ELSE n
Sgn(n) == IF n > 0 THEN 1 ELSE IF n < 0 THEN -1 ELSE 0
Min2(a, b) == IF a <= b THEN a ELSE b
Max2(a, b) == IF a >= b THEN a ELSE b
SetMin(S) == CHOOSE m \in S : \A n \in S : m <= n
SetMax(S) == CHOOSE m \in S : \A n \in S : m >= n

\* The side of the line p->q on which r lies.
Orient(p, q, r) ==
    Sgn((q[1] - p[1]) * (r[2] - p[2]) - (q[2] - p[2]) * (r[1] - p[1]))
Between(a, b, c) == (a <= c /\ c <= b) \/ (b <= c /\ c <= a)
OnSegment(p, q, r) ==
    Orient(p, q, r) = 0 /\ Between(p[1], q[1], r[1]) /\ Between(p[2], q[2], r[2])

\* shapely's intersects of two 2-point LineStrings g and h (closed sets).
Intersects(g, h) ==
    LET o1 == Orient(g[1], g[2], h[1])
        o2 == Orient(g[1], g[2], h[2])
        o3 == Orient(h[1], h[2], g[1])
        o4 == Orient(h[1], h[2], g[2])
    IN  \/ (o1 # o2 /\ o3 # o4)
        \/ OnSegment(g[1], g[2], h[1])
        \/ OnSegment(g[1], g[2], h[2])
        \/ OnSegment(h[1], h[2], g[1])
        \/ OnSegment(h[1], h[2], g[2])

\* A variant of the box test that every point passes.
BoxContainsAll(b, p) == TRUE

\* shapely's box(minx, miny, maxx, maxy).contains(point): the interior only.
BoxContains(b, p) == b[1] < p[1] /\ p[1] < b[3] /\ b[2] < p[2] /\ p[2] < b[4]

\* ---------------------------------------------------------- street networks
\* Waco-Streets.geojson: LineString features with street_id and name.  Three
\* networks: one street of three vertices (segments of 100 m and 150 m), the
\* same with a second street, and three streets whose two vertices coincide
\* (segments of length 0).
Networks ==
    << << [street_id |-> 1, name |-> "A", coords |-> << <<2, 0>>, <<0, 0>>, <<0, 3>> >>] >>,
       << [street_id |-> 1, name |-> "A", coords |-> << <<2, 0>>, <<0, 0>>, <<0, 3>> >>],
          [street_id |-> 2, name |-> "B", coords |-> << <<0, 3>>, <<2, 3>> >>] >>,
       << [street_id |-> 1, name |-> "A", coords |-> << <<1, 0>>, <<1, 0>> >>],
          [street_id |-> 2, name |-> "B", coords |-> << <<0, 1>>, <<0, 1>> >>],
          [street_id |-> 3, name |-> "C", coords |-> << <<2, 3>>, <<2, 3>> >>] >> >>

\* Strings are sequences of characters.
Digit(n) == <<"0", "1", "2", "3", "4", "5", "6", "7", "8", "9">>[n + 1]

DigitValue(c) == CHOOSE n \in 0..9 : Digit(n) = c

\* str(n) of a natural number, as an f-string formats it.
RECURSIVE Str(_)
Str(n) == IF n < 10 THEN <<Digit(n)>> ELSE Str(n \div 10) \o <<Digit(n % 10)>>

\* A variant of the segment id that leaves the index of the pair out.
SegmentIdOfStreet(street_id, i) == Str(street_id) \o <<"_", "0">>

\* _process_streets_into_segments, line 65: f"{street['street_id']}_{i}".
SegmentId(street_id, i) == Str(street_id) \o <<"_">> \o Str(i)

\* The length of a projected (UTM) segment; the segments are axis-aligned.
UtmLength(a, b) == Abs(a[1] - b[1]) + Abs(a[2] - b[2])

\* The segments of one street: one per pair of consecutive vertices, built in
\* UTM, its length taken there, its geometry projected back.
StreetSegments(street) ==
    [i \in 1..(Len(street.coords) - 1) |->
        LET a == ToUtm(street.coords[i])
            b == ToUtm(street.coords[i + 1])
        IN  [geometry |-> <<FromUtm(a), FromUtm(b)>>,
             street_id |-> street.street_id,
             name |-> street.name,
             segment_id |-> SegmentId(street.street_id, i - 1),
             length |-> UtmLength(a, b)]]

RECURSIVE ProcessStreetsIntoSegments(_)
ProcessStreetsIntoSegments(streets) ==
    IF streets = <<>> THEN <<>>
    ELSE StreetSegments(Head(streets)) \o ProcessStreetsIntoSegments(Tail(streets))

\* total_bounds of streets_gdf, which _process_streets_into_segments has left
\* in UTM: <<minx, miny, maxx, maxy>>.
WacoBbox(streets) ==
    LET pts == UNION {{ToUtm(streets[s].coords[i]) : i \in 1..Len(streets[s].coords)} :
                         s \in 1..Len(streets)}
    IN  <<SetMin({p[1] : p \in pts}), SetMin({p[2] : p \in pts}),
          SetMax({p[1] : p \in pts}), SetMax({p[2] : p \in pts})>>

\* ------------------------------------------------------------------ routes
\* A route is the coordinate list of a feature.  InBox lies inside waco_box
\* (the UTM bounds); FarA and FarB lie beyond the network, on the lines from
\* InBox through the middle of segment 0 and through segment 1.
InBox == <<550, 50>>
FarA == <<-548, -50>>
FarB == <<-550, -48>>
\* Beyond lies on the line from FarA through InBox, past waco_box.
Beyond == <<1099, 100>>

\* A drive along the streets, in geographic coordinates.
RouteDrive == << <<2, 0>>, <<0, 0>>, <<0, 3>> >>
RouteA == <<InBox, FarA>>
RouteB == <<FarB, InBox>>

RouteCatalogue == {RouteDrive, RouteA, RouteB}

\* A route whose second coordinate has one number only.
RouteMalformed == <<InBox, <<1>> >>

RECURSIVE SeqsUpTo(_, _)
SeqsUpTo(S, n) ==
    IF n = 0 THEN {<<>>}
    ELSE LET shorter == SeqsUpTo(S, n - 1)
         IN  shorter \cup {Append(q, x) : q \in {r \in shorter : Len(r) = n - 1}, x \in S}

Batches == SeqsUpTo(RouteCatalogue, MaxBatch)

\* ---------------------------------------------------------------- analyzer
VARIABLES
    streets_gdf,        \* the street network read at construction
    segments_df,        \* the segment table; row i of the frame is segments_df[i + 1]
    waco_bbox,          \* total_bounds of the (projected) streets
    traveled_segments,  \* the set of traveled row indices
    cpu,                \* cpu_count()
    pc,                 \* "idle", or "map" while update_progress awaits pool.map
    new_routes,         \* the batch of the current or last update_progress
    results,            \* pool.map: per chunk, Pending or the set its worker returned
    progress,           \* what the last update_progress returned
    before,             \* traveled_segments when the current or last update began
    last_op,            \* the last call that ended: "none", "update", "reset", "raised"
    prev_op,            \* last_op when the current or last update began
    repeat              \* the current update has the batch of the one just before it

analyzerVars == <<streets_gdf, segments_df, waco_bbox, traveled_segments, cpu, pc,
                  new_routes, results, progress, before, last_op, prev_op, repeat>>

\* GeoJSONHandler and the directory static/.
VARIABLES
    historical_geojson_features,  \* the list of all loaded and ingested features
    monthly_data,                 \* month key -> list of features
    files,                        \* static/: file name -> the features of its document
    handler_pc,                   \* "idle", "fetch", "write": where update_historical_data is
    new_features,                 \* the features of the running update_historical_data
    to_write,                     \* the month keys _update_monthly_files has yet to write
    latest_date,                  \* the timestamp the running fetch starts from
    runs,                         \* the calls of update_historical_data so far
    truncated,                    \* the files opened for writing and left without a document
    outcome                       \* of the last call: "none", "running", "returned", "raised"

archiveVars == <<historical_geojson_features, monthly_data, files, handler_pc,
                 new_features, to_write, latest_date, runs, truncated, outcome>>

\* The last call of filter_geojson_features.
VARIABLES
    filter_query,   \* its start_date and end_date strings
    filter_result   \* what it returned, or the exception it raised

filterVars == <<filter_query, filter_result>>

\* The Quart application: app.processing_lock, app.is_processing and the
\* requests it serves.
VARIABLES
    processing_lock,  \* the request that holds the lock, or 0
    is_processing,    \* app.is_processing
    req_pc,           \* per request: "new", "to_thread", "ingest", "done"
    endpoint,         \* per request: the route it was sent to, "" before it is
    response,         \* per request: the status code of the response, 0 before it
    status_report     \* per request: the isProcessing that /processing_status sent

requestVars == <<processing_lock, is_processing, req_pc, endpoint, response,
                 status_report>>

\* The start of the application: the flags of the historical load and the
\* position of load_historical_data_background.
VARIABLES
    historical_data_loaded,   \* app.historical_data_loaded
    historical_data_loading,  \* app.historical_data_loading
    startup_pc                \* "start", "load" (at the await), "finally", "serving"

startupVars == <<historical_data_loaded, historical_data_loading, startup_pc>>

\* The live position: BouncieAPI.live_trip_data, app.live_route_data and its
\* file, and the callers of get_latest_bouncie_data.
VARIABLES
    live_trip_data,    \* live_trip_data["data"]: the points stored
    live_route_data,   \* the coordinates of the LineString of app.live_route_data
    live_route_file,   \* the coordinates in live_route_data.geojson
    live_pc,           \* per caller: "idle", "fetch" (at the await), "route"
    bouncie_data,      \* per caller: what get_latest_bouncie_data returned
    latest_return      \* the last return of get_latest_bouncie_data

liveVars == <<live_trip_data, live_route_data, live_route_file, live_pc, bouncie_data,
              latest_return>>

\* The fetch loop of the running update_historical_data.
VARIABLES
    backfill_pc,    \* "idle", "loop" (at the await of a day's fetch), "done"
    backfill_run,   \* the call of update_historical_data the loop belongs to
    current_date,   \* current_date, as a timestamp
    today,          \* today = datetime.now(tz=timezone.utc), as a timestamp
    requested       \* the date_str of every fetch_trip_data of the loop, in order

backfillVars == <<backfill_pc, backfill_run, current_date, today, requested>>

appVars == <<requestVars, startupVars, liveVars, backfillVars>>

\* The last direct call of export_to_gpx, of _process_route and of
\* analyze_coverage: its arguments and what it returned or raised.
VARIABLES
    export_query,     \* export_to_gpx: start_date and end_date
    export_scanned,   \* the month keys whose shard was handed to the filter, in order
    export_result,    \* the filtered features, or the exception raised
    route_arg,        \* _process_route: the route
    route_result,     \* the set it returned, or the exception raised
    coverage_arg,     \* analyze_coverage: the boundary
    coverage_result,  \* the record it returned, or the exception raised
    progress_arg,        \* the waco_boundary of the last get_progress_geojson
    progress_geojson,    \* the features of the collection it returned
    untraveled_arg,      \* the waco_boundary of the last get_untraveled_streets
    untraveled_streets   \* the rows of the frame it returned

callVars == <<export_query, export_scanned, export_result, route_arg, route_result,
              coverage_arg, coverage_result, progress_arg, progress_geojson,
              untraveled_arg, untraveled_streets>>

vars == <<analyzerVars, archiveVars, filterVars, appVars, callVars>>
notAnalyzer == <<archiveVars, filterVars, appVars, callVars>>
notArchive == <<analyzerVars, filterVars, appVars, callVars>>

\* An entry of results: a chunk whose worker has not returned, or its set.
Pending == [done |-> FALSE, value |-> {}]
Returned(set) == [done |-> TRUE, value |-> set]
\* A chunk whose worker raised: pool.map raises that exception.
Failed(exception) == [done |-> TRUE, value |-> {}, raised |-> exception]
HasRaised(result) == "raised" \in DOMAIN result

\* The index of segments_df (a RangeIndex).
SegmentIndex == 0..(Len(segments_df) - 1)

\* A variant of _process_route that records row positions counted from 1.
ProcessRouteFromOne(route) ==
    UNION {IF BoxContains(waco_bbox, route[i]) \/ BoxContains(waco_bbox, route[i + 1])
           THEN {idx + 1 : idx \in {j \in SegmentIndex :
                    Intersects(segments_df[j + 1].geometry, <<route[i], route[i + 1]>>)}}
           ELSE {} : i \in 1..(Len(route) - 1)}

\* WacoStreetsAnalyzer._process_route: per leg, when either end is inside
\* waco_box, the rows whose geometry intersects the leg.
ProcessRoute(route) ==
    UNION {IF BoxContains(waco_bbox, route[i]) \/ BoxContains(waco_bbox, route[i + 1])
           THEN {idx \in SegmentIndex :
                    Intersects(segments_df[idx + 1].geometry, <<route[i], route[i + 1]>>)}
           ELSE {} : i \in 1..(Len(route) - 1)}

\* _process_route, lines 111-112: coords[i][0] and coords[i][1] are read for
\* both ends of each leg; a coordinate with fewer than two numbers raises
\* IndexError.
RouteRaises(route) ==
    \E i \in 1..(Len(route) - 1) : Len(route[i]) < 2 \/ Len(route[i + 1]) < 2

\* process_chunk has no handler: the exception of a route is that of the chunk.
ChunkRaises(chunk) == \E i \in 1..Len(chunk) : RouteRaises(chunk[i])

\* A variant of process_chunk that stops after the first route of the chunk.
ProcessChunkFirstOnly(chunk) ==
    IF chunk = <<>> THEN {} ELSE ProcessRoute(Head(chunk))

\* process_chunk: the union of the routes' sets.
RECURSIVE ProcessChunk(_)
ProcessChunk(chunk) ==
    IF chunk = <<>> THEN {}
    ELSE ProcessRoute(Head(chunk)) \cup ProcessChunk(Tail(chunk))

\* update_progress, lines 122-123: the chunk size and the chunks, each with
\* the offset it starts at.
ChunkSize(n, cores) == Max2(1, n \div (cores - 1))
\* A variant of the chunks that stops at the last full chunk.
ChunksWithoutRemainder(routes, cores) ==
    LET size == ChunkSize(Len(routes), cores)
        count == Len(routes) \div size
    IN  [k \in 1..count |->
            [chunk_index |-> (k - 1) * size,
             chunk |-> SubSeq(routes, (k - 1) * size + 1, k * size)]]
Chunks(routes, cores) ==
    LET size == ChunkSize(Len(routes), cores)
        count == (Len(routes) + size - 1) \div size
    IN  [k \in 1..count |->
            [chunk_index |-> (k - 1) * size,
             chunk |-> SubSeq(routes, (k - 1) * size + 1, Min2(k * size, Len(routes)))]]

\* Variants of the union loop: one assigns the results instead of adding
\* them, one toggles the membership of each result.
UnionResultsAssigns(traveled, res) == UNION {res[k].value : k \in 1..Len(res)}
UnionResultsToggles(traveled, res) ==
    LET new == UNION {res[k].value : k \in 1..Len(res)}
    IN  (traveled \ new) \cup (new \ traveled)

\* update_progress, lines 130-131: the driver's union of the results.
RECURSIVE UnionResults(_, _)
UnionResults(traveled, res) ==
    IF res = <<>> THEN traveled
    ELSE UnionResults(traveled \cup Head(res).value, Tail(res))

\* A variant of reset_progress that clears nothing.
ClearedNothing(traveled) == traveled

\* reset_progress: traveled_segments.clear().
Cleared(traveled) == {}

RECURSIVE SumLength(_)
SumLength(rows) ==
    IF rows = {} THEN 0
    ELSE LET r == CHOOSE x \in rows : TRUE
         IN  segments_df[r + 1].length + SumLength(rows \ {r})

\* A variant of calculate_progress that reports the share left to travel.
CalculateProgressRemaining(traveled) ==
    LET total_length == SumLength(SegmentIndex)
        traveled_length == SumLength(traveled)
    IN  IF total_length = 0 THEN <<0, 1>>
        ELSE <<(total_length - traveled_length) * 100, total_length>>

\* A variant of calculate_progress that takes the share of the segments by
\* their number, not their length.
CalculateProgressByCount(traveled) ==
    IF SegmentIndex = {} THEN <<0, 1>>
    ELSE <<Cardinality(traveled) * 100, Cardinality(SegmentIndex)>>

\* A variant of calculate_progress that divides by the length left to travel.
CalculateProgressAgainstRest(traveled) ==
    LET total_length == SumLength(SegmentIndex)
        traveled_length == SumLength(traveled)
    IN  IF total_length - traveled_length = 0 THEN <<0, 1>>
        ELSE <<traveled_length * 100, total_length - traveled_length>>

\* calculate_progress: traveled_length / total_length * 100, or 0.
CalculateProgress(traveled) ==
    LET total_length == SumLength(SegmentIndex)
        traveled_length == SumLength(traveled)
    IN  IF total_length = 0 THEN <<0, 1>>
        ELSE <<traveled_length * 100, total_length>>

AnalyzerInit ==
    /\ streets_gdf \in {Networks[n] : n \in 1..Len(Networks)}
    /\ segments_df = ProcessStreetsIntoSegments(streets_gdf)
    /\ waco_bbox = WacoBbox(streets_gdf)
    /\ traveled_segments = {}
    /\ cpu \in 1..MaxCores
    /\ pc = "idle"
    /\ new_routes = <<>>
    /\ results = <<>>
    /\ progress = <<0, 1>>
    /\ before = {}
    /\ last_op = "none"
    /\ prev_op = "none"
    /\ repeat = FALSE

\* GeoJSONHandler.__init__, and static/ before any shard is written.
HandlerInit ==
    /\ historical_geojson_features = <<>>
    /\ monthly_data = <<>>
    /\ files = <<>>
    /\ handler_pc = "idle"
    /\ new_features = <<>>
    /\ to_write = {}
    /\ latest_date = 0
    /\ runs = 0
    /\ truncated = {}
    /\ outcome = "none"

\* No call of filter_geojson_features yet.
FilterInit ==
    /\ filter_query = [start_date |-> <<>>, end_date |-> <<>>]
    /\ filter_result = [raised |-> "", features |-> <<>>]

\* The requests of one run of the model.
MaxRequests == 3
Requests == 1..MaxRequests

\* The polling task and a request of /live_data.
LiveCallers == {"poll_bouncie_api", "/live_data"}

\* create_app: the lock is free and is_processing False; no request yet.
AppInit ==
    /\ processing_lock = 0
    /\ is_processing = FALSE
    /\ req_pc = [r \in Requests |-> "new"]
    /\ endpoint = [r \in Requests |-> ""]
    /\ response = [r \in Requests |-> 0]
    /\ status_report = [r \in Requests |-> ""]
    /\ historical_data_loaded = FALSE
    /\ historical_data_loading = FALSE
    /\ startup_pc = "start"
    /\ live_trip_data = <<>>
    /\ live_route_data = <<>>
    /\ live_route_file = <<>>
    /\ live_pc = [c \in LiveCallers |-> "idle"]
    /\ bouncie_data = [c \in LiveCallers |-> <<>>]
    /\ latest_return = [fetched |-> <<>>, returned |-> <<>>]
    /\ backfill_pc = "idle"
    /\ backfill_run = 0
    /\ current_date = 0
    /\ today = 0
    /\ requested = <<>>

\* No direct call yet.
CallInit ==
    /\ export_query = [start_date |-> <<>>, end_date |-> <<>>]
    /\ export_scanned = <<>>
    /\ export_result = [raised |-> "", features |-> <<>>]
    /\ route_arg = <<>>
    /\ route_result = [raised |-> "", segments |-> {}]
    /\ coverage_arg = ""
    /\ coverage_result = [raised |-> "", total_streets |-> 0, traveled_streets |-> 0,
                          coverage_percentage |-> <<0, 1>>]
    /\ progress_arg = ""
    /\ progress_geojson = <<>>
    /\ untraveled_arg = ""
    /\ untraveled_streets = <<>>

\* The program after construction.
Init == AnalyzerInit /\ HandlerInit /\ FilterInit /\ AppInit /\ CallInit

\* update_progress up to its await: the chunks are handed to the pool.
UpdateProgressStart(routes) ==
    /\ pc = "idle"
    /\ cpu >= 2
    /\ new_routes' = routes
    /\ results' = [k \in 1..Len(Chunks(routes, cpu)) |-> Pending]
    /\ before' = traveled_segments
    /\ prev_op' = last_op
    /\ repeat' = (last_op = "update" /\ routes = new_routes)
    /\ pc' = "map"
    /\ UNCHANGED <<streets_gdf, segments_df, waco_bbox, traveled_segments, cpu,
                   progress, last_op>>
    /\ UNCHANGED notAnalyzer

\* update_progress on one core: len(new_routes) // 0 raises before the pool.
UpdateProgressZeroDivision(routes) ==
    /\ pc = "idle"
    /\ cpu = 1
    /\ last_op' = "raised"
    /\ new_routes' = routes
    /\ before' = traveled_segments
    /\ prev_op' = last_op
    /\ repeat' = FALSE
    /\ UNCHANGED <<streets_gdf, segments_df, waco_bbox, traveled_segments, cpu, pc,
                   results, progress>>
    /\ UNCHANGED notAnalyzer

\* A variant of the worker that adds its set to the set of the driver.
AfterWorkerShared(traveled, result) == traveled \cup result

\* process_chunk, lines 21-29: the worker fills a set of its own, in a pool
\* process that has a copy of the analyzer; the set of the driver is as it
\* was.
AfterWorker(traveled, result) == traveled

\* A pool worker returns the set of one chunk; the workers end in any order.
WorkerReturns(k) ==
    /\ pc = "map"
    /\ ~results[k].done
    /\ results' = [results EXCEPT
                     ![k] = IF ChunkRaises(Chunks(new_routes, cpu)[k].chunk)
                            THEN Failed("IndexError")
                            ELSE Returned(ProcessChunk(Chunks(new_routes, cpu)[k].chunk))]
    /\ traveled_segments' = AfterWorker(traveled_segments, results'[k].value)
    /\ UNCHANGED <<streets_gdf, segments_df, waco_bbox, cpu, pc,
                   new_routes, progress, before, last_op, prev_op, repeat>>
    /\ UNCHANGED notAnalyzer

\* A variant of the failure of update_progress that first adds the sets of
\* the chunks that returned.
OnFailurePartial(traveled, res) ==
    UNION ({traveled} \cup {res[k].value : k \in {j \in 1..Len(res) : res[j].done}})

\* update_progress, lines 126-131: an exception at the await (of a worker,
\* or a cancellation) leaves the function before the union loop.
OnFailure(traveled, res) == traveled

\* update_progress after pool.map.  When a worker raised, pool.map raises and
\* update_progress re-raises.  Else the union loop and calculate_progress,
\* whose .loc raises KeyError on a label that segments_df does not have.
UpdateProgressReduce ==
    /\ pc = "map"
    /\ \A k \in 1..Len(results) : results[k].done
    /\ traveled_segments' =
          IF \E k \in 1..Len(results) : HasRaised(results[k])
          THEN OnFailure(traveled_segments, results)
          ELSE UnionResults(traveled_segments, results)
    /\ IF \E k \in 1..Len(results) : HasRaised(results[k])
       THEN progress' = progress /\ last_op' = "raised"
       ELSE IF traveled_segments' \subseteq SegmentIndex
       THEN progress' = CalculateProgress(traveled_segments') /\ last_op' = "update"
       ELSE progress' = progress /\ last_op' = "raised"
    /\ pc' = "idle"
    /\ UNCHANGED <<streets_gdf, segments_df, waco_bbox, cpu, new_routes, results,
                   before, prev_op, repeat>>
    /\ UNCHANGED notAnalyzer

ResetProgress ==
    /\ pc = "idle"
    /\ traveled_segments' = Cleared(traveled_segments)
    /\ last_op' = "reset"
    /\ UNCHANGED <<streets_gdf, segments_df, waco_bbox, cpu, pc, new_routes, results,
                   progress, before, prev_op, repeat>>
    /\ UNCHANGED notAnalyzer

\* update_progress is cancelled while it awaits pool.map: CancelledError is
\* raised at the await.
UpdateProgressCancelled ==
    /\ pc = "map"
    /\ traveled_segments' = OnFailure(traveled_segments, results)
    /\ last_op' = "cancelled"
    /\ pc' = "idle"
    /\ UNCHANGED <<streets_gdf, segments_df, waco_bbox, cpu, new_routes, results,
                   progress, before, prev_op, repeat>>
    /\ UNCHANGED notAnalyzer

NextAnalyzer ==
    \/ \E routes \in Batches : UpdateProgressStart(routes)
    \/ \E routes \in Batches : UpdateProgressZeroDivision(routes)
    \/ \E k \in 1..MaxBatch : k <= Len(results) /\ WorkerReturns(k)
    \/ UpdateProgressReduce
    \/ ResetProgress

SpecAnalyzer == Init /\ [][NextAnalyzer]_vars

\* The analyzer with batches that may hold a malformed route, and with
\* cancellation.
MaxFaultBatch == 2
FaultBatches == SeqsUpTo({RouteA, RouteB, RouteMalformed}, MaxFaultBatch)

NextFaults ==
    \/ \E routes \in FaultBatches : UpdateProgressStart(routes)
    \/ \E routes \in FaultBatches : UpdateProgressZeroDivision(routes)
    \/ \E k \in 1..MaxFaultBatch : k <= Len(results) /\ WorkerReturns(k)
    \/ UpdateProgressReduce
    \/ UpdateProgressCancelled
    \/ ResetProgress

SpecFaults == Init /\ [][NextFaults]_vars

\* ---------------------------------------------------------------- coverage
\* A closed box <<minx, miny, maxx, maxy>> and a 2-point line have a point in
\* common: an end of the line is in the box or the line meets a side.
BoxIntersects(b, g) ==
    LET In(p) == b[1] <= p[1] /\ p[1] <= b[3] /\ b[2] <= p[2] /\ p[2] <= b[4]
    IN  \/ In(g[1]) \/ In(g[2])
        \/ Intersects(g, << <<b[1], b[2]>>, <<b[3], b[2]>> >>)
        \/ Intersects(g, << <<b[3], b[2]>>, <<b[3], b[4]>> >>)
        \/ Intersects(g, << <<b[3], b[4]>>, <<b[1], b[4]>> >>)
        \/ Intersects(g, << <<b[1], b[4]>>, <<b[1], b[2]>> >>)

\* static/<waco_boundary>.geojson: the union of its geometries, a box in
\* geographic coordinates around the streets, a box around the first
\* vertices of street A only, or a box wide enough to hold the projected
\* coordinates too.
Boundaries == {"none", "city_limits", "downtown", "wide"}
BoundaryFile(waco_boundary) ==
    IF waco_boundary = "city_limits" THEN <<-1, -1, 3, 4>>
    ELSE IF waco_boundary = "downtown" THEN <<1, -1, 3, 1>>
    ELSE <<-1000, -1000, 1000, 1000>>

\* streets_gdf[streets_gdf.intersects(waco_limits)]: streets_gdf is the frame
\* that _process_streets_into_segments left in UTM.
StreetsInLimits(streets, waco_limits) ==
    {n \in 1..Len(streets) :
        \E i \in 1..(Len(streets[n].coords) - 1) :
            BoxIntersects(waco_limits, <<ToUtm(streets[n].coords[i]),
                                         ToUtm(streets[n].coords[i + 1])>>)}

\* A variant of the percentage of analyze_coverage that divides whatever the
\* number of streets.
CoveragePercentageUnguarded(traveled_streets, total_streets) ==
    <<traveled_streets * 100, total_streets>>

\* analyze_coverage, line 223: (traveled / total) * 100 if total > 0 else 0.
CoveragePercentage(traveled_streets, total_streets) ==
    IF total_streets > 0 THEN <<traveled_streets * 100, total_streets>> ELSE <<0, 1>>

\* analyze_coverage(waco_boundary): the streets and the traveled streets,
\* both within the boundary when one is given, and the percentage.  .loc
\* raises KeyError on a label the table lacks; a division by zero raises
\* ZeroDivisionError.
AnalyzeCoverage(waco_boundary) ==
    LET waco_limits == BoundaryFile(waco_boundary)
        total_streets ==
            IF waco_boundary = "none" THEN Len(streets_gdf)
            ELSE Cardinality(StreetsInLimits(streets_gdf, waco_limits))
        traveled_streets ==
            IF waco_boundary = "none"
            THEN Cardinality({segments_df[idx + 1].street_id : idx \in traveled_segments})
            ELSE Cardinality({segments_df[idx + 1].street_id :
                                 idx \in {j \in traveled_segments :
                                     BoxIntersects(waco_limits, segments_df[j + 1].geometry)}})
        coverage_percentage == CoveragePercentage(traveled_streets, total_streets)
    IN  /\ coverage_arg' = waco_boundary
        /\ coverage_result' =
              IF ~(traveled_segments \subseteq SegmentIndex)
              THEN [raised |-> "KeyError", total_streets |-> 0,
                    traveled_streets |-> 0, coverage_percentage |-> <<0, 1>>]
              ELSE IF coverage_percentage[2] = 0
              THEN [raised |-> "ZeroDivisionError", total_streets |-> 0,
                    traveled_streets |-> 0, coverage_percentage |-> <<0, 1>>]
              ELSE [raised |-> "", total_streets |-> total_streets,
                    traveled_streets |-> traveled_streets,
                    coverage_percentage |-> coverage_percentage]
        /\ UNCHANGED <<export_query, export_scanned, export_result, route_arg, route_result,
                       progress_arg, progress_geojson, untraveled_arg, untraveled_streets>>
        /\ UNCHANGED <<analyzerVars, archiveVars, filterVars, appVars>>

\* The members of a set of integers in increasing order.
RECURSIVE Ascending(_)
Ascending(S) == IF S = {} THEN <<>> ELSE <<SetMin(S)>> \o Ascending(S \ {SetMin(S)})

\* The rows of segments_df within the boundary: all of them without one.
RowsInLimits(waco_boundary) ==
    {idx \in SegmentIndex :
        \/ waco_boundary = "none"
        \/ BoxIntersects(BoundaryFile(waco_boundary), segments_df[idx + 1].geometry)}

\* A variant of the traveled property that reads the index as a position
\* counted from 1.
TraveledFlagFromOne(idx, traveled) == idx + 1 \in traveled

\* get_progress_geojson, line 177: segment.Index in self.traveled_segments.
TraveledFlag(idx, traveled) == idx \in traveled

\* get_progress_geojson(waco_boundary): one feature per row of segments_df
\* that intersects the boundary, in row order.
GetProgressGeojson(waco_boundary) ==
    LET rows == Ascending(RowsInLimits(waco_boundary))
    IN  /\ progress_arg' = waco_boundary
        /\ progress_geojson' =
              [k \in 1..Len(rows) |->
                  [geometry |-> segments_df[rows[k] + 1].geometry,
                   segment_id |-> segments_df[rows[k] + 1].segment_id,
                   street_id |-> segments_df[rows[k] + 1].street_id,
                   name |-> segments_df[rows[k] + 1].name,
                   traveled |-> TraveledFlag(rows[k], traveled_segments)]]
        /\ UNCHANGED <<export_query, export_scanned, export_result, route_arg, route_result,
                       coverage_arg, coverage_result, untraveled_arg, untraveled_streets>>
        /\ UNCHANGED <<analyzerVars, archiveVars, filterVars, appVars>>

\* A variant of the selection of get_untraveled_streets that keeps every row.
UntraveledRowsAll(traveled) == SegmentIndex

\* get_untraveled_streets, line 194: the rows whose index is not in
\* traveled_segments.
UntraveledRows(traveled) == SegmentIndex \ traveled

\* get_untraveled_streets(waco_boundary): the untraveled rows within the
\* boundary, dissolved by street_id: one row per street_id, in increasing
\* order, its geometry the union of the geometries of its rows and its name
\* that of the first.
GetUntraveledStreets(waco_boundary) ==
    LET untraveled_segments == UntraveledRows(traveled_segments)
                                   \cap RowsInLimits(waco_boundary)
        ids == Ascending({segments_df[idx + 1].street_id : idx \in untraveled_segments})
        Group(street_id) ==
            {idx \in untraveled_segments : segments_df[idx + 1].street_id = street_id}
    IN  /\ untraveled_arg' = waco_boundary
        /\ untraveled_streets' =
              [k \in 1..Len(ids) |->
                  [street_id |-> ids[k],
                   geometry |-> {segments_df[idx + 1].geometry : idx \in Group(ids[k])},
                   name |-> segments_df[SetMin(Group(ids[k])) + 1].name]]
        /\ UNCHANGED <<export_query, export_scanned, export_result, route_arg, route_result,
                       coverage_arg, coverage_result, progress_arg, progress_geojson>>
        /\ UNCHANGED <<analyzerVars, archiveVars, filterVars, appVars>>

\* The batches of the coverage runs.
CoverageBatches == {<<RouteA>>, <<RouteB>>, <<RouteA, RouteB>>}

NextCoverage ==
    \/ \E routes \in CoverageBatches : UpdateProgressStart(routes)
    \/ \E routes \in CoverageBatches : UpdateProgressZeroDivision(routes)
    \/ \E k \in 1..2 : k <= Len(results) /\ WorkerReturns(k)
    \/ UpdateProgressReduce
    \/ ResetProgress
    \/ \E waco_boundary \in Boundaries : AnalyzeCoverage(waco_boundary)

SpecCoverage == Init /\ [][NextCoverage]_vars

\* The analyzer with its two views of the segment table.
ViewBatches == {<<RouteA>>, <<RouteB>>}

NextViews ==
    \/ \E routes \in ViewBatches : UpdateProgressStart(routes)
    \/ WorkerReturns(1)
    \/ UpdateProgressReduce
    \/ ResetProgress
    \/ \E waco_boundary \in Boundaries : GetProgressGeojson(waco_boundary)
    \/ \E waco_boundary \in Boundaries : GetUntraveledStreets(waco_boundary)

SpecViews == Init /\ [][NextViews]_vars

\* ------------------------------------------------------------------- dates
\* Timestamps are unix seconds.  A datetime is a record of its civil date,
\* the second of its day, its microsecond and its tzinfo ("utc", or "none"
\* for a naive datetime).
SecondsPerDay == 86400

\* The civil date <<year, month, day>> of a day number (days since 1970-01-01),
\* as datetime.fromtimestamp(t, tz=timezone.utc) gives it, for days >= 0.
CivilFromDays(days) ==
    LET z == days + 719468
        era == z \div 146097
        doe == z - era * 146097
        yoe == (doe - doe \div 1460 + doe \div 36524 - doe \div 146096) \div 365
        doy == doe - (365 * yoe + yoe \div 4 - yoe \div 100)
        mp == (5 * doy + 2) \div 153
        d == doy - (153 * mp + 2) \div 5 + 1
        m == IF mp < 10 THEN mp + 3 ELSE mp - 9
        y == yoe + era * 400 + (IF m <= 2 THEN 1 ELSE 0)
    IN  <<y, m, d>>

\* The day number of a civil date: the order of datetimes is that of their
\* day numbers, then seconds, then microseconds.
DaysFromCivil(y, m, d) ==
    LET yy == IF m <= 2 THEN y - 1 ELSE y
        era == yy \div 400
        yoe == yy - era * 400
        doy == (153 * (IF m > 2 THEN m - 3 ELSE m + 9) + 2) \div 5 + d - 1
        doe == yoe * 365 + yoe \div 4 - yoe \div 100 + doy
    IN  era * 146097 + doe - 719468

\* datetime.fromtimestamp(timestamp, tz=timezone.utc)
FromTimestamp(timestamp) ==
    [date |-> CivilFromDays(timestamp \div SecondsPerDay),
     second |-> timestamp % SecondsPerDay,
     microsecond |-> 0,
     tzinfo |-> "utc"]

\* date.strftime("%Y-%m")
StrftimeYearMonth(dt) ==
    LET y == dt.date[1]
        m == dt.date[2]
    IN  <<Digit(y \div 1000), Digit((y \div 100) % 10), Digit((y \div 10) % 10),
          Digit(y % 10), "-", Digit(m \div 10), Digit(m % 10)>>

\* A variant of the shard key that takes the month in a local time zone six
\* hours behind UTC.
MonthYearLocal(timestamp) == StrftimeYearMonth(FromTimestamp(timestamp - 21600))

\* _update_monthly_files, lines 246-248: the shard key of a timestamp.
MonthYear(timestamp) == StrftimeYearMonth(FromTimestamp(timestamp))

\* ----------------------------------------------------------------- archive
HistoricalPrefix ==
    <<"h", "i", "s", "t", "o", "r", "i", "c", "a", "l", "_", "d", "a", "t", "a", "_">>
GeojsonSuffix == <<".", "g", "e", "o", "j", "s", "o", "n">>

\* f"static/historical_data_{month_year}.geojson", within static/.
ShardFileName(month_year) == HistoricalPrefix \o month_year \o GeojsonSuffix

StartsWith(str, prefix) ==
    Len(str) >= Len(prefix) /\ SubSeq(str, 1, Len(prefix)) = prefix
EndsWith(str, suffix) ==
    Len(str) >= Len(suffix) /\ SubSeq(str, Len(str) - Len(suffix) + 1, Len(str)) = suffix

\* str.split(sep)
RECURSIVE Split(_, _)
Split(str, sep) ==
    IF \A i \in 1..Len(str) : str[i] # sep THEN <<str>>
    ELSE LET i == SetMin({j \in 1..Len(str) : str[j] = sep})
         IN  <<SubSeq(str, 1, i - 1)>> \o Split(SubSeq(str, i + 1, Len(str)), sep)

\* load_historical_data, line 142: file.split('_')[2].split('.')[0]
MonthYearOfFile(file) == Split(Split(file, "_")[3], ".")[1]

\* The trips the vendor API returns: a trip is the list of its points, each
\* with lat, lon and timestamp.  TimeAugust is 2020-08-31T23:59:59Z and
\* TimeSeptember 2020-09-01T00:00:00Z.
TimeAugust == 1598918399
TimeSeptember == 1598918400

TripOf(route, timestamp) ==
    [i \in 1..Len(route) |-> [lat |-> route[i][2], lon |-> route[i][1],
                              timestamp |-> timestamp]]

TripCatalogue ==
    <<TripOf(RouteA, TimeAugust), TripOf(RouteDrive, TimeSeptember),
      TripOf(<< <<1, 0>> >>, TimeSeptember)>>

\* What one backfill fetches: some of the trips, each at most once.
RECURSIVE SubSequences(_)
SubSequences(seq) ==
    IF seq = <<>> THEN {<<>>}
    ELSE LET rest == SubSequences(Tail(seq))
         IN  rest \cup {<<Head(seq)>> \o r : r \in rest}

Fetches == SubSequences(TripCatalogue)

\* A variant of the length test that lets a single point pass.
EnoughPointsOne(coordinates) == Len(coordinates) >= 1

\* create_geojson_features_from_trips, line 332: len(coordinates) > 1.
EnoughPoints(coordinates) == Len(coordinates) > 1

\* create_geojson_features_from_trips: one feature per trip of two or more
\* points, with the coordinates as [lon, lat] and the last point's timestamp.
RECURSIVE CreateGeojsonFeaturesFromTrips(_)
CreateGeojsonFeaturesFromTrips(data) ==
    IF data = <<>> THEN <<>>
    ELSE LET trip == Head(data)
             coordinates == [i \in 1..Len(trip) |-> <<trip[i].lon, trip[i].lat>>]
         IN  (IF EnoughPoints(coordinates)
              THEN << [coordinates |-> coordinates,
                       timestamp |-> trip[Len(trip)].timestamp] >>
              ELSE <<>>) \o CreateGeojsonFeaturesFromTrips(Tail(data))

\* monthly_data is a defaultdict(list): a function from its keys to lists.
Lookup(monthly, month_year) ==
    IF month_year \in DOMAIN monthly THEN monthly[month_year] ELSE <<>>

\* _update_monthly_files, lines 245-250: each new feature is appended to the
\* list of its month.
RECURSIVE AppendToMonthlyData(_, _)
AppendToMonthlyData(monthly, features) ==
    IF features = <<>> THEN monthly
    ELSE LET feature == Head(features)
             month_year == MonthYear(feature.timestamp)
             appended == Append(Lookup(monthly, month_year), feature)
         IN  AppendToMonthlyData(
                 [k \in DOMAIN monthly \cup {month_year} |->
                     IF k = month_year THEN appended ELSE monthly[k]],
                 Tail(features))

\* load_historical_data, line 136: the shard files of static/.
MonthlyFiles(dir) ==
    {f \in DOMAIN dir : StartsWith(f, HistoricalPrefix) /\ EndsWith(f, GeojsonSuffix)}

\* The files in the order of os.listdir, taken here as the order of their
\* month keys (the keys are of equal length and compare by their digits).
RECURSIVE StrLess(_, _)
StrLess(a, b) ==
    IF a = <<>> \/ b = <<>> THEN a = <<>> /\ b # <<>>
    ELSE LET order == <<"-", ".", "0", "1", "2", "3", "4", "5", "6", "7", "8", "9">>
             rank(c) == IF \E i \in 1..Len(order) : order[i] = c
                        THEN CHOOSE i \in 1..Len(order) : order[i] = c
                        ELSE Len(order) + 1
         IN  IF Head(a) = Head(b) THEN StrLess(Tail(a), Tail(b))
             ELSE rank(Head(a)) < rank(Head(b))

RECURSIVE SortedFiles(_)
SortedFiles(names) ==
    IF names = {} THEN <<>>
    ELSE LET first == CHOOSE f \in names : \A g \in names \ {f} : StrLess(f, g)
         IN  <<first>> \o SortedFiles(names \ {first})

\* load_historical_data, lines 138-144: the features of all shard files, and
\* monthly_data keyed by the month read off each file name.
RECURSIVE LoadedFeatures(_, _)
LoadedFeatures(dir, names) ==
    IF names = <<>> THEN <<>>
    ELSE dir[Head(names)] \o LoadedFeatures(dir, Tail(names))

LoadedMonthlyData(monthly, dir) ==
    LET names == MonthlyFiles(dir)
        keys == {MonthYearOfFile(f) : f \in names}
    IN  [k \in DOMAIN monthly \cup keys |->
            IF k \in keys
            THEN dir[CHOOSE f \in names : MonthYearOfFile(f) = k]
            ELSE monthly[k]]

\* --------------------------------------------------------- archive actions
\* The calls of update_historical_data in one run of the model.
MaxRuns == 2

\* datetime(2020, 8, 1, tzinfo=timezone.utc), as a timestamp.
BackfillStart == 1596240000

\* update_historical_data, lines 168-178: the date the fetch starts from.
LatestDate(fetch_all, features) ==
    IF fetch_all \/ features = <<>> THEN BackfillStart
    ELSE SetMax({features[i].timestamp : i \in 1..Len(features)})

\* The trips of the days asked for: from the day of latest_date on.
FetchedFrom(all_trips, since) ==
    \A i \in 1..Len(all_trips) :
        all_trips[i][Len(all_trips[i])].timestamp >=
            (since \div SecondsPerDay) * SecondsPerDay

\* update_historical_data up to its first await (the token, then the fetch of
\* each day).
UpdateHistoricalDataCall(fetch_all) ==
    /\ handler_pc = "idle"
    /\ runs < MaxRuns
    /\ runs' = runs + 1
    /\ latest_date' = LatestDate(fetch_all, historical_geojson_features)
    /\ handler_pc' = "fetch"
    /\ outcome' = "running"
    /\ UNCHANGED <<historical_geojson_features, monthly_data, files, new_features,
                   to_write, truncated>>
    /\ UNCHANGED notArchive

\* The fetch loop has ended: the features are made and, when there are any,
\* _update_monthly_files appends each to the list of its month.
FetchReturns(all_trips) ==
    /\ handler_pc = "fetch"
    /\ FetchedFrom(all_trips, latest_date)
    /\ new_features' = CreateGeojsonFeaturesFromTrips(all_trips)
    /\ IF new_features' = <<>>
       THEN /\ handler_pc' = "idle"
            /\ outcome' = "returned"
            /\ UNCHANGED <<monthly_data, to_write>>
       ELSE /\ monthly_data' = AppendToMonthlyData(monthly_data, new_features')
            /\ to_write' = DOMAIN monthly_data'
            /\ handler_pc' = "write"
            /\ UNCHANGED outcome
    /\ UNCHANGED <<historical_geojson_features, files, latest_date, runs, truncated>>
    /\ UNCHANGED notArchive

\* A variant of the document of a shard that holds the new features of the
\* month only.
ShardDocumentNew(monthly, month_year, new) ==
    SelectSeq(new, LAMBDA feature : MonthYear(feature.timestamp) = month_year)

\* _update_monthly_files, lines 254-259: the document written for a month
\* holds the whole list of the month.
ShardDocument(monthly, month_year, new) == monthly[month_year]

\* static/ after a write to the file of a month.
Written(dir, month_year, document) ==
    [f \in DOMAIN dir \cup {ShardFileName(month_year)} |->
        IF f = ShardFileName(month_year) THEN document ELSE dir[f]]

\* _update_monthly_files, lines 252-259: one file is opened for writing and
\* its whole document written.
WriteMonthlyFile(month_year) ==
    /\ handler_pc = "write"
    /\ month_year \in to_write
    /\ files' = Written(files, month_year,
                        ShardDocument(monthly_data, month_year, new_features))
    /\ truncated' = truncated \ {ShardFileName(month_year)}
    /\ to_write' = to_write \ {month_year}
    /\ UNCHANGED <<historical_geojson_features, monthly_data, handler_pc, new_features,
                   latest_date, runs, outcome>>
    /\ UNCHANGED notArchive

\* A variant of the end of a failed call that returns as if it had succeeded.
FailureSwallowed == "returned"

\* update_historical_data, lines 213-215, and load_historical_data, lines
\* 158-160: the exception is logged and raised.
FailureOutcome == "raised"

\* _update_monthly_files, lines 254-255: an I/O failure (or the end of the
\* process) while the file of a month is written.  open(filename, "w") has
\* emptied the file when it did not fail itself; nothing more is written,
\* and the exception leaves update_historical_data.
WriteFails(month_year, opened) ==
    /\ handler_pc = "write"
    /\ month_year \in to_write
    /\ IF opened
       THEN /\ files' = Written(files, month_year, <<>>)
            /\ truncated' = truncated \cup {ShardFileName(month_year)}
       ELSE UNCHANGED <<files, truncated>>
    /\ to_write' = {}
    /\ handler_pc' = "idle"
    /\ outcome' = FailureOutcome
    /\ UNCHANGED <<historical_geojson_features, monthly_data, new_features, latest_date,
                   runs>>
    /\ UNCHANGED notArchive

\* update_historical_data, line 207: after the files, the list is extended.
ExtendHistorical ==
    /\ handler_pc = "write"
    /\ to_write = {}
    /\ historical_geojson_features' = historical_geojson_features \o new_features
    /\ handler_pc' = "idle"
    /\ outcome' = "returned"
    /\ UNCHANGED <<monthly_data, files, new_features, to_write, latest_date, runs,
                   truncated>>
    /\ UNCHANGED notArchive

\* load_historical_data: nothing when features are loaded; else the shard
\* files are read and, when they hold no feature, update_historical_data is
\* called.  (update_all_progress, called last, changes no state: see
\* UpdateAllProgress.)
LoadHistoricalData ==
    /\ handler_pc = "idle"
    /\ IF historical_geojson_features # <<>>
       THEN /\ outcome' = "returned"
            /\ UNCHANGED <<historical_geojson_features, monthly_data, handler_pc,
                           latest_date, runs>>
       ELSE /\ truncated \cap MonthlyFiles(files) = {}
            /\ historical_geojson_features' =
                   LoadedFeatures(files, SortedFiles(MonthlyFiles(files)))
            /\ monthly_data' = LoadedMonthlyData(monthly_data, files)
            /\ IF historical_geojson_features' = <<>> /\ runs < MaxRuns
               THEN /\ handler_pc' = "fetch"
                    /\ latest_date' = LatestDate(TRUE, historical_geojson_features')
                    /\ runs' = runs + 1
                    /\ outcome' = "running"
               ELSE /\ outcome' = "returned"
                    /\ UNCHANGED <<handler_pc, latest_date, runs>>
    /\ UNCHANGED <<files, new_features, to_write, truncated>>
    /\ UNCHANGED notArchive

\* load_historical_data, lines 138-144 and 158-160: reading the n-th shard
\* file fails (an I/O error, or json.loads on a file without a document).
\* The features and the months of the files before it are loaded already;
\* the exception is raised as Exception("Error loading historical data").
LoadFails(n) ==
    LET names == SortedFiles(MonthlyFiles(files))
        read == SubSeq(names, 1, n - 1)
    IN  /\ handler_pc = "idle"
        /\ historical_geojson_features = <<>>
        /\ n \in 1..Len(names)
        /\ \A k \in 1..(n - 1) : names[k] \notin truncated
        /\ historical_geojson_features' = LoadedFeatures(files, read)
        /\ monthly_data' =
              LoadedMonthlyData(monthly_data,
                                [f \in {read[k] : k \in 1..Len(read)} |-> files[f]])
        /\ outcome' = FailureOutcome
        /\ UNCHANGED <<files, handler_pc, new_features, to_write, latest_date, runs,
                       truncated>>
        /\ UNCHANGED notArchive

\* The process is started again: a new GeoJSONHandler, the same static/.
Restart ==
    /\ handler_pc = "idle"
    /\ historical_geojson_features # <<>>
    /\ historical_geojson_features' = <<>>
    /\ monthly_data' = <<>>
    /\ new_features' = <<>>
    /\ outcome' = "none"
    /\ UNCHANGED <<files, handler_pc, to_write, latest_date, runs, truncated>>
    /\ UNCHANGED notArchive

NextArchive ==
    \/ \E fetch_all \in BOOLEAN : UpdateHistoricalDataCall(fetch_all)
    \/ \E all_trips \in Fetches : FetchReturns(all_trips)
    \/ \E month_year \in DOMAIN monthly_data : WriteMonthlyFile(month_year)
    \/ ExtendHistorical
    \/ LoadHistoricalData
    \/ Restart

SpecArchive == Init /\ [][NextArchive]_vars

\* The archive with I/O failures.
NextIO ==
    \/ NextArchive
    \/ \E month_year \in DOMAIN monthly_data, opened \in BOOLEAN :
          WriteFails(month_year, opened)
    \/ \E n \in 1..Cardinality(DOMAIN files) : LoadFails(n)

SpecIO == Init /\ [][NextIO]_vars

\* ------------------------------------------------- calls of _process_route
\* The longest route of a direct call and the points its routes are made of.
MaxPoints == 2
ProbePoints == {InBox, FarA, FarB, Beyond, <<1, 0>>, <<1>>}
ProbeRoutes == SeqsUpTo(ProbePoints, MaxPoints)

\* One call of _process_route on the coordinates of a feature.
ProcessRouteCall(route) ==
    /\ route_arg' = route
    /\ route_result' = IF RouteRaises(route)
                       THEN [raised |-> "IndexError", segments |-> {}]
                       ELSE [raised |-> "", segments |-> ProcessRoute(route)]
    /\ UNCHANGED <<export_query, export_scanned, export_result, coverage_arg,
                   coverage_result, progress_arg, progress_geojson, untraveled_arg,
                   untraveled_streets>>
    /\ UNCHANGED <<analyzerVars, archiveVars, filterVars, appVars>>

NextRoute == \E route \in ProbeRoutes : ProcessRouteCall(route)

SpecRoute == Init /\ [][NextRoute]_vars

\* The archive next to calls of _process_route on routes of no point, of one
\* point and of two.
ShortRoutes == {<<>>, <<InBox>>, << <<1>> >>, RouteA}

NextIntake ==
    \/ NextArchive
    \/ \E route \in ShortRoutes : ProcessRouteCall(route)

SpecIntake == Init /\ [][NextIntake]_vars

\* ------------------------------------------------------------------ filter
\* str.replace(old, new) for a one-character old.
RECURSIVE Replace(_, _, _)
Replace(str, old, new) ==
    IF str = <<>> THEN <<>>
    ELSE (IF Head(str) = old THEN new ELSE <<Head(str)>>) \o Replace(Tail(str), old, new)

IsDigits(str) == str # <<>> /\ \A i \in 1..Len(str) : str[i] \in {Digit(n) : n \in 0..9}

RECURSIVE Number(_)
Number(str) ==
    IF str = <<>> THEN 0
    ELSE 10 * Number(SubSeq(str, 1, Len(str) - 1)) + DigitValue(str[Len(str)])

\* What a parse gives when it raises ValueError.
NoDatetime == [date |-> <<0, 0, 0>>, second |-> 0, microsecond |-> 0, tzinfo |-> "ValueError"]

Datetime(y, m, d, hh, mm, ss, tz) ==
    IF m \in 1..12 /\ d \in 1..31 /\ hh \in 0..23 /\ mm \in 0..59 /\ ss \in 0..59
    THEN [date |-> <<y, m, d>>, second |-> hh * 3600 + mm * 60 + ss, microsecond |-> 0,
          tzinfo |-> tz]
    ELSE NoDatetime

\* datetime.fromisoformat for YYYY-MM-DD, YYYY-MM-DD[T ]HH:MM:SS and the
\* latter with the offset +00:00.
FromIsoFormat(str) ==
    LET dateOk == /\ Len(str) >= 10
                  /\ IsDigits(SubSeq(str, 1, 4)) /\ str[5] = "-"
                  /\ IsDigits(SubSeq(str, 6, 7)) /\ str[8] = "-"
                  /\ IsDigits(SubSeq(str, 9, 10))
        timeOk == /\ Len(str) >= 19
                  /\ str[11] \in {"T", " "}
                  /\ IsDigits(SubSeq(str, 12, 13)) /\ str[14] = ":"
                  /\ IsDigits(SubSeq(str, 15, 16)) /\ str[17] = ":"
                  /\ IsDigits(SubSeq(str, 18, 19))
        y == Number(SubSeq(str, 1, 4))
        m == Number(SubSeq(str, 6, 7))
        d == Number(SubSeq(str, 9, 10))
        hh == Number(SubSeq(str, 12, 13))
        mm == Number(SubSeq(str, 15, 16))
        ss == Number(SubSeq(str, 18, 19))
    IN  IF dateOk /\ Len(str) = 10 THEN Datetime(y, m, d, 0, 0, 0, "none")
        ELSE IF dateOk /\ timeOk /\ Len(str) = 19 THEN Datetime(y, m, d, hh, mm, ss, "none")
        ELSE IF dateOk /\ timeOk /\ Len(str) = 25
                /\ SubSeq(str, 20, 25) = <<"+", "0", "0", ":", "0", "0">>
        THEN Datetime(y, m, d, hh, mm, ss, "utc")
        ELSE NoDatetime

\* datetime.strptime(str, '%Y-%m-%d'), and with a time after the separator
\* sep: '%Y-%m-%dT%H:%M:%S' and '%Y-%m-%d %H:%M:%S'.  Fields of one or two
\* digits are read; the result is naive.
Strptime(str, sep) ==
    LET parts == IF sep = "" THEN <<str>> ELSE Split(str, sep)
        ymd == Split(parts[1], "-")
        hms == IF sep = "" THEN <<<<"0">>, <<"0">>, <<"0">>>> ELSE Split(parts[2], ":")
        Short(f) == IsDigits(f) /\ Len(f) <= 2
    IN  IF /\ Len(parts) = (IF sep = "" THEN 1 ELSE 2)
           /\ Len(ymd) = 3 /\ IsDigits(ymd[1]) /\ Len(ymd[1]) = 4
           /\ Short(ymd[2]) /\ Short(ymd[3])
           /\ Len(hms) = 3 /\ Short(hms[1]) /\ Short(hms[2]) /\ Short(hms[3])
        THEN Datetime(Number(ymd[1]), Number(ymd[2]), Number(ymd[3]),
                      Number(hms[1]), Number(hms[2]), Number(hms[3]), "none")
        ELSE NoDatetime

\* parse_date: fromisoformat with Z as +00:00, else the first of the three
\* formats that reads the string, else ValueError.
ParseDate(date_string) ==
    LET iso == FromIsoFormat(Replace(date_string, "Z", <<"+", "0", "0", ":", "0", "0">>))
    IN  IF iso # NoDatetime THEN iso
        ELSE IF Strptime(date_string, "") # NoDatetime THEN Strptime(date_string, "")
        ELSE IF Strptime(date_string, "T") # NoDatetime THEN Strptime(date_string, "T")
        ELSE Strptime(date_string, " ")

\* get_start_of_day and get_end_of_day: date.replace(...) keeps the date and
\* the tzinfo.
GetStartOfDay(date) == [date EXCEPT !.second = 0, !.microsecond = 0]
GetEndOfDay(date) == [date EXCEPT !.second = 23 * 3600 + 59 * 60 + 59, !.microsecond = 999999]

\* a <= b for datetimes of one kind (both naive or both aware in UTC).
DatetimeLeq(a, b) ==
    LET da == DaysFromCivil(a.date[1], a.date[2], a.date[3])
        db == DaysFromCivil(b.date[1], b.date[2], b.date[3])
    IN  \/ da < db
        \/ da = db /\ a.second < b.second
        \/ da = db /\ a.second = b.second /\ a.microsecond <= b.microsecond

\* A naive and an aware datetime cannot be compared: TypeError.
Comparable(a, b) == a.tzinfo = b.tzinfo

FilterReturned(features) == [raised |-> "", features |-> features]
FilterRaised(exception) == [raised |-> exception, features |-> <<>>]

\* filter_geojson_features, lines 277-301, with bounds None and filter_waco
\* False: the loop over the features.  The timestamps of stored features are
\* whole seconds, which int(float(timestamp)) leaves as they are.  In
\* start <= route <= end the second comparison is made only when the first
\* holds.
RECURSIVE FilterLoop(_, _, _)
FilterLoop(features, start_datetime, end_datetime) ==
    IF features = <<>> THEN FilterReturned(<<>>)
    ELSE LET feature == Head(features)
             route_datetime == FromTimestamp(feature.timestamp)
             rest == FilterLoop(Tail(features), start_datetime, end_datetime)
         IN  IF ~Comparable(start_datetime, route_datetime) THEN FilterRaised("TypeError")
             ELSE IF ~DatetimeLeq(start_datetime, route_datetime) THEN rest
             ELSE IF ~Comparable(route_datetime, end_datetime) THEN FilterRaised("TypeError")
             ELSE IF ~DatetimeLeq(route_datetime, end_datetime) THEN rest
             ELSE IF rest.raised # "" THEN rest
             ELSE FilterReturned(<<feature>> \o rest.features)

\* The date strings of the queries: a day as the routes of app.py and
\* gpx_exporter.py pass it, two instants as format_date writes them (one
\* with Z), and a word.
DateStrings ==
    { <<"2", "0", "2", "0", "-", "0", "8", "-", "3", "1">>,
      <<"2", "0", "2", "0", "-", "0", "8", "-", "3", "1", "T", "0", "6", ":", "3", "0",
        ":", "0", "0", "+", "0", "0", ":", "0", "0">>,
      <<"2", "0", "2", "0", "-", "0", "9", "-", "0", "1", "T", "1", "2", ":", "0", "0",
        ":", "0", "0", "Z">>,
      <<"t", "o", "d", "a", "y">> }

\* filter_geojson_features(start_date, end_date, False, None, features): the
\* two dates are parsed, then the loop.
FilterFeatures(start_date, end_date, features) ==
    IF ParseDate(start_date) = NoDatetime \/ ParseDate(end_date) = NoDatetime
    THEN FilterRaised("ValueError")
    ELSE FilterLoop(features, GetStartOfDay(ParseDate(start_date)),
                    GetEndOfDay(ParseDate(end_date)))

\* filter_geojson_features(start_date, end_date, False, None): a synchronous
\* call, made at any point between the steps of the handler.
FilterGeojsonFeatures(start_date, end_date) ==
    /\ filter_query' = [start_date |-> start_date, end_date |-> end_date]
    /\ filter_result' = FilterFeatures(start_date, end_date, historical_geojson_features)
    /\ UNCHANGED <<analyzerVars, archiveVars, appVars, callVars>>

NextFilter ==
    \/ NextArchive
    \/ \E start_date, end_date \in DateStrings : FilterGeojsonFeatures(start_date, end_date)

SpecFilter == Init /\ [][NextFilter]_vars

\* ------------------------------------------------- filter with a boundary
\* None, for waco_limits and for bounds.
None == <<>>

\* The boundary files that static/ holds.
BoundaryFilesPresent == {"city_limits", "downtown", "wide"}

\* load_waco_boundary(boundary_type): the union of the file's geometries, or
\* None when the file cannot be read: the exception is logged, not raised.
LoadWacoBoundary(boundary_type) ==
    IF boundary_type \in BoundaryFilesPresent THEN BoundaryFile(boundary_type) ELSE None

\* LineString([p, q]).intersection(box) for a leg along an axis: nothing, a
\* point or a part of the leg, in the direction of the leg.
ClipLeg(b, p, q) ==
    IF p[2] = q[2]
    THEN LET lo == Max2(Min2(p[1], q[1]), b[1])
             hi == Min2(Max2(p[1], q[1]), b[3])
         IN  IF p[2] < b[2] \/ p[2] > b[4] \/ lo > hi THEN <<>>
             ELSE IF lo = hi THEN << <<lo, p[2]>> >>
             ELSE IF p[1] <= q[1] THEN << <<lo, p[2]>>, <<hi, p[2]>> >>
             ELSE << <<hi, p[2]>>, <<lo, p[2]>> >>
    ELSE LET lo == Max2(Min2(p[2], q[2]), b[2])
             hi == Min2(Max2(p[2], q[2]), b[4])
         IN  IF p[1] < b[1] \/ p[1] > b[3] \/ lo > hi THEN <<>>
             ELSE IF lo = hi THEN << <<p[1], lo>> >>
             ELSE IF p[2] <= q[2] THEN << <<p[1], lo>>, <<p[1], hi>> >>
             ELSE << <<p[1], hi>>, <<p[1], lo>> >>

\* route_line.intersection(waco_polygon): the parts of the legs within the
\* polygon, consecutive parts that meet joined into one line.  A part of one
\* coordinate is a point.
RECURSIVE ClipParts(_, _, _, _)
ClipParts(b, coords, i, parts) ==
    IF i >= Len(coords) THEN parts
    ELSE LET c == ClipLeg(b, coords[i], coords[i + 1])
             n == Len(parts)
         IN  IF c = <<>> THEN ClipParts(b, coords, i + 1, parts)
             ELSE IF n > 0 /\ parts[n][Len(parts[n])] = c[1]
             THEN ClipParts(b, coords, i + 1,
                            [parts EXCEPT ![n] = IF Len(c) = 1 THEN parts[n]
                                                 ELSE IF Len(parts[n]) = 1 THEN c
                                                 ELSE Append(parts[n], c[2])])
             ELSE ClipParts(b, coords, i + 1, Append(parts, c))

\* clip_route_to_boundary, lines 114-116: the coordinates of a LineString,
\* the lists of those of a MultiLineString, else [].
ClippedCoordinates(parts) ==
    IF Len(parts) = 1 /\ Len(parts[1]) >= 2 THEN parts[1]
    ELSE IF \A k \in 1..Len(parts) : Len(parts[k]) >= 2 THEN parts
    ELSE <<>>

\* geom_type of the intersection.
GeomType(parts) ==
    IF \A k \in 1..Len(parts) : Len(parts[k]) >= 2
    THEN (IF Len(parts) = 1 THEN "LineString" ELSE "MultiLineString")
    ELSE IF \A k \in 1..Len(parts) : Len(parts[k]) = 1
    THEN (IF Len(parts) = 1 THEN "Point" ELSE "MultiPoint")
    ELSE "GeometryCollection"

\* clip_route_to_boundary(feature, waco_limits): no feature when the
\* intersection is empty, else one feature with the type and the coordinates
\* of the intersection and the properties of the route.
ClipRouteToBoundary(feature, waco_limits) ==
    LET parts == ClipParts(waco_limits, feature.coordinates, 1, <<>>)
    IN  IF parts = <<>> THEN <<>>
        ELSE << [type |-> GeomType(parts),
                 coordinates |-> ClippedCoordinates(parts),
                 timestamp |-> feature.timestamp] >>

\* shape(feature['geometry']).intersects(bounding_box)
RouteIntersectsBox(coordinates, b) ==
    \E i \in 1..(Len(coordinates) - 1) : BoxIntersects(b, <<coordinates[i], coordinates[i + 1]>>)

\* filter_geojson_features, line 289: filter_waco and waco_limits.
ClipWanted(filter_waco, waco_limits) == filter_waco /\ waco_limits # None

\* filter_geojson_features, lines 277-294: the loop, with the bounds test and
\* the clip.
RECURSIVE FilterLoopClip(_, _, _, _, _, _)
FilterLoopClip(features, start_datetime, end_datetime, filter_waco, waco_limits, bounds) ==
    IF features = <<>> THEN FilterReturned(<<>>)
    ELSE LET feature == Head(features)
             route_datetime == FromTimestamp(feature.timestamp)
             rest == FilterLoopClip(Tail(features), start_datetime, end_datetime,
                                    filter_waco, waco_limits, bounds)
         IN  IF ~Comparable(start_datetime, route_datetime) THEN FilterRaised("TypeError")
             ELSE IF ~DatetimeLeq(start_datetime, route_datetime) THEN rest
             ELSE IF ~Comparable(route_datetime, end_datetime) THEN FilterRaised("TypeError")
             ELSE IF ~DatetimeLeq(route_datetime, end_datetime) THEN rest
             ELSE IF bounds # None /\ ~RouteIntersectsBox(feature.coordinates, bounds) THEN rest
             ELSE IF rest.raised # "" THEN rest
             ELSE IF ClipWanted(filter_waco, waco_limits)
             THEN FilterReturned(ClipRouteToBoundary(feature, waco_limits) \o rest.features)
             ELSE FilterReturned(<<feature>> \o rest.features)

\* The routes of the calls with a boundary run along the axes: one across
\* the downtown box, one that touches it at a corner, one away from it, and
\* one that leaves it and comes back.
RouteAcross == [coordinates |-> << <<0, 0>>, <<4, 0>> >>, timestamp |-> TimeAugust]
RouteTouching == [coordinates |-> << <<3, 1>>, <<5, 1>> >>, timestamp |-> TimeSeptember]
RouteAway == [coordinates |-> << <<5, 5>>, <<6, 5>> >>, timestamp |-> TimeSeptember]
RouteReturning ==
    [coordinates |-> << <<2, 0>>, <<2, 2>>, <<1, 2>>, <<1, 0>> >>, timestamp |-> TimeAugust]

\* The feature lists of the calls.
ClipFeatures ==
    { <<>>, <<RouteAcross>>, <<RouteTouching>>, <<RouteAway>>, <<RouteReturning>>,
      <<RouteAcross, RouteTouching>>, <<RouteReturning, RouteAway>> }

\* The dates of the calls with a boundary, instants as format_date writes
\* them: from 2020-08-31 to that day or to 2020-09-01.
ClipStart ==
    <<"2", "0", "2", "0", "-", "0", "8", "-", "3", "1", "T", "0", "6", ":", "3", "0",
      ":", "0", "0", "+", "0", "0", ":", "0", "0">>
ClipEnds ==
    { ClipStart,
      <<"2", "0", "2", "0", "-", "0", "9", "-", "0", "1", "T", "1", "2", ":", "0", "0",
        ":", "0", "0", "Z">> }

\* The bounds of the calls: None or a box.
ClipBounds == {None, <<4, 0, 6, 6>>}

\* The boundaries the callers name: two that static/ holds and one it lacks.
ClipBoundaries == {"city_limits", "downtown", "old_limits"}

\* A caller of filter_geojson_features (app.py 246-256, gpx_exporter.py
\* 14-30): the boundary is loaded when filter_waco is set and a boundary is
\* named, and the features are filtered with what the load returned.
FilterWithBoundary(start_date, end_date, filter_waco, waco_boundary, bounds, features) ==
    LET waco_limits == IF filter_waco /\ waco_boundary # "none"
                       THEN LoadWacoBoundary(waco_boundary) ELSE None
    IN  /\ filter_query' = [start_date |-> start_date, end_date |-> end_date,
                            filter_waco |-> filter_waco, waco_boundary |-> waco_boundary,
                            bounds |-> bounds, features |-> features]
        /\ filter_result' =
              IF ParseDate(start_date) = NoDatetime \/ ParseDate(end_date) = NoDatetime
              THEN FilterRaised("ValueError")
              ELSE FilterLoopClip(features, GetStartOfDay(ParseDate(start_date)),
                                  GetEndOfDay(ParseDate(end_date)), filter_waco,
                                  waco_limits, bounds)
        /\ UNCHANGED <<analyzerVars, archiveVars, appVars, callVars>>

NextClip ==
    \E end_date \in ClipEnds, filter_waco \in BOOLEAN,
       waco_boundary \in ClipBoundaries, bounds \in ClipBounds, features \in ClipFeatures :
        FilterWithBoundary(ClipStart, end_date, filter_waco, waco_boundary, bounds, features)

SpecClip == Init /\ [][NextClip]_vars

\* ------------------------------------------------------------------ export
\* export_to_gpx, lines 23-33: current_month runs from the first day of the
\* month of start, a month at a time (32 days on, then day 1), while it is
\* not after end; each gives the key strftime("%Y-%m").
RECURSIVE ExportMonths(_, _)
ExportMonths(current_month, end_datetime) ==
    IF ~DatetimeLeq(current_month, end_datetime) THEN <<>>
    ELSE LET y == current_month.date[1]
             m == current_month.date[2]
             next == IF m = 12 THEN <<y + 1, 1, 1>> ELSE <<y, m + 1, 1>>
         IN  <<StrftimeYearMonth(current_month)>>
                \o ExportMonths([current_month EXCEPT !.date = next], end_datetime)

\* export_to_gpx, lines 25-31: for each month that is a key of monthly_data,
\* the filter is called on the features of that shard; an exception of the
\* filter ends the loop.
RECURSIVE ExportScan(_, _, _, _)
ExportScan(months, monthly, start_date, end_date) ==
    IF months = <<>> THEN [raised |-> "", features |-> <<>>, scanned |-> <<>>]
    ELSE IF Head(months) \notin DOMAIN monthly
    THEN ExportScan(Tail(months), monthly, start_date, end_date)
    ELSE LET month_features == FilterFeatures(start_date, end_date, monthly[Head(months)])
             rest == ExportScan(Tail(months), monthly, start_date, end_date)
         IN  IF month_features.raised # ""
             THEN [raised |-> month_features.raised, features |-> <<>>,
                   scanned |-> <<Head(months)>>]
             ELSE [raised |-> rest.raised,
                   features |-> IF rest.raised # "" THEN <<>>
                                ELSE month_features.features \o rest.features,
                   scanned |-> <<Head(months)>> \o rest.scanned]

\* The date strings of the exports: two days in the form strptime reads,
\* and an instant as the route /export_gpx passes it (format_date).
DayAugust31 == <<"2", "0", "2", "0", "-", "0", "8", "-", "3", "1">>
DaySeptember1 == <<"2", "0", "2", "0", "-", "0", "9", "-", "0", "1">>
InstantAugust31 ==
    <<"2", "0", "2", "0", "-", "0", "8", "-", "3", "1", "T", "0", "0", ":", "0", "0",
      ":", "0", "0", "+", "0", "0", ":", "0", "0">>
ExportDates == {DayAugust31, DaySeptember1, InstantAugust31}

\* GPXExporter.export_to_gpx(start_date, end_date, False, waco_boundary), to
\* the list of filtered features.
ExportToGpx(start_date, end_date) ==
    LET start_datetime == Strptime(start_date, "")
        end_datetime == Strptime(end_date, "")
        scan == ExportScan(ExportMonths([start_datetime EXCEPT !.date[3] = 1], end_datetime),
                           monthly_data, start_date, end_date)
    IN  /\ export_query' = [start_date |-> start_date, end_date |-> end_date]
        /\ IF start_datetime = NoDatetime \/ end_datetime = NoDatetime
           THEN /\ export_scanned' = <<>>
                /\ export_result' = FilterRaised("ValueError")
           ELSE /\ export_scanned' = scan.scanned
                /\ export_result' = [raised |-> scan.raised, features |-> scan.features]
        /\ UNCHANGED <<route_arg, route_result, coverage_arg, coverage_result,
                       progress_arg, progress_geojson, untraveled_arg, untraveled_streets>>
        /\ UNCHANGED <<analyzerVars, archiveVars, filterVars, appVars>>

NextExport ==
    \/ NextArchive
    \/ \E start_date, end_date \in ExportDates : ExportToGpx(start_date, end_date)

SpecExport == Init /\ [][NextExport]_vars

\* --------------------------------------------------------------------- app
\* update_all_progress, lines 343-359: asyncio.to_thread calls
\* waco_analyzer.update_progress(features) in a thread.  update_progress is
\* a coroutine function: the call makes a coroutine object and runs none of
\* its body, and the await gives that object, which is dropped.  The traveled
\* set after update_all_progress is the one before it.
UpdateAllProgress(traveled, features) == traveled

\* The routes of a list of features.
RoutesOf(features) == [i \in 1..Len(features) |-> features[i].coordinates]

\* A variant of the lock that is never held.
AcquiredNone(r) == 0

\* A variant of the end of a job that clears the flag on success only.
AfterJobOnSuccess(failed) == failed

\* finally, lines 397-398 and 451-452: app.is_processing = False, whether
\* the job failed or not.
AfterJob(failed) == FALSE

\* async with app.processing_lock: the lock, held by request r.
Acquired(r) == r

\* Requests arrive in the order of their numbers.
Arrived(r) == req_pc[r] = "new" /\ \A q \in 1..(r - 1) : endpoint[q] # ""

\* POST /reset_progress up to its await: the lock is taken; when
\* is_processing is set the answer is 429; else it is set and the traveled
\* set cleared.
ResetProgressRoute(r) ==
    /\ Arrived(r)
    /\ processing_lock = 0
    /\ endpoint' = [endpoint EXCEPT ![r] = "/reset_progress"]
    /\ IF is_processing
       THEN /\ response' = [response EXCEPT ![r] = 429]
            /\ req_pc' = [req_pc EXCEPT ![r] = "done"]
            /\ UNCHANGED <<processing_lock, is_processing, traveled_segments, last_op>>
       ELSE /\ is_processing' = TRUE
            /\ processing_lock' = Acquired(r)
            /\ traveled_segments' = Cleared(traveled_segments)
            /\ last_op' = "reset"
            /\ req_pc' = [req_pc EXCEPT ![r] = "to_thread"]
            /\ UNCHANGED response
    /\ UNCHANGED <<streets_gdf, segments_df, waco_bbox, cpu, pc, new_routes, results,
                   progress, before, prev_op, repeat>>
    /\ UNCHANGED <<status_report, startupVars, liveVars, backfillVars, archiveVars,
                   filterVars, callVars>>

\* POST /reset_progress from the await on: update_all_progress returns, the
\* answer is 200, is_processing is cleared and the lock released.
ResetProgressCompletes(r) ==
    /\ req_pc[r] = "to_thread"
    /\ traveled_segments' = UpdateAllProgress(traveled_segments, historical_geojson_features)
    /\ response' = [response EXCEPT ![r] = 200]
    /\ req_pc' = [req_pc EXCEPT ![r] = "done"]
    /\ is_processing' = AfterJob(FALSE)
    /\ processing_lock' = 0
    /\ UNCHANGED <<streets_gdf, segments_df, waco_bbox, cpu, pc, new_routes, results,
                   progress, before, last_op, prev_op, repeat>>
    /\ UNCHANGED <<endpoint, status_report, startupVars, liveVars, backfillVars,
                   archiveVars, filterVars, callVars>>

\* POST /update_historical_data up to its first await: as /reset_progress,
\* then update_historical_data(fetch_all=True) is called.
UpdateHistoricalDataRoute(r) ==
    /\ Arrived(r)
    /\ processing_lock = 0
    /\ runs < MaxRuns
    /\ endpoint' = [endpoint EXCEPT ![r] = "/update_historical_data"]
    /\ IF is_processing
       THEN /\ response' = [response EXCEPT ![r] = 429]
            /\ req_pc' = [req_pc EXCEPT ![r] = "done"]
            /\ UNCHANGED <<processing_lock, is_processing, handler_pc, latest_date, runs,
                           outcome>>
       ELSE /\ is_processing' = TRUE
            /\ processing_lock' = Acquired(r)
            /\ runs' = runs + 1
            /\ latest_date' = LatestDate(TRUE, historical_geojson_features)
            /\ handler_pc' = "fetch"
            /\ outcome' = "running"
            /\ req_pc' = [req_pc EXCEPT ![r] = "ingest"]
            /\ UNCHANGED response
    /\ UNCHANGED <<historical_geojson_features, monthly_data, files, new_features,
                   to_write, truncated>>
    /\ UNCHANGED <<status_report, startupVars, liveVars, backfillVars, analyzerVars,
                   filterVars, callVars>>

\* POST /update_historical_data once update_historical_data has returned.
UpdateHistoricalDataCompletes(r) ==
    /\ req_pc[r] = "ingest"
    /\ handler_pc = "idle"
    /\ outcome = "returned"
    /\ response' = [response EXCEPT ![r] = 200]
    /\ req_pc' = [req_pc EXCEPT ![r] = "done"]
    /\ is_processing' = AfterJob(FALSE)
    /\ processing_lock' = 0
    /\ UNCHANGED <<endpoint, status_report, startupVars, liveVars, backfillVars,
                   analyzerVars, archiveVars, filterVars, callVars>>

\* POST /update_historical_data when update_historical_data has raised:
\* lines 394-398, the answer is 500 and the finally clause clears the flag.
UpdateHistoricalDataFails(r) ==
    /\ req_pc[r] = "ingest"
    /\ handler_pc = "idle"
    /\ outcome = "raised"
    /\ response' = [response EXCEPT ![r] = 500]
    /\ req_pc' = [req_pc EXCEPT ![r] = "done"]
    /\ is_processing' = AfterJob(TRUE)
    /\ processing_lock' = 0
    /\ UNCHANGED <<endpoint, status_report, startupVars, liveVars, backfillVars,
                   analyzerVars, archiveVars, filterVars, callVars>>

\* POST /reset_progress when its await ends with an exception that
\* update_all_progress does not catch (the request is cancelled): no answer
\* is sent, the finally clause of lines 451-452 clears the flag and the lock
\* is released.
ResetProgressCancelled(r) ==
    /\ req_pc[r] = "to_thread"
    /\ req_pc' = [req_pc EXCEPT ![r] = "done"]
    /\ is_processing' = AfterJob(TRUE)
    /\ processing_lock' = 0
    /\ UNCHANGED <<endpoint, response, status_report, startupVars, liveVars, backfillVars,
                   analyzerVars, archiveVars, filterVars, callVars>>

\* GET /processing_status, lines 410-413: the lock is taken, the flag read
\* and sent, the lock released, with no await in between.
ProcessingStatus(r) ==
    /\ Arrived(r)
    /\ processing_lock = 0
    /\ endpoint' = [endpoint EXCEPT ![r] = "/processing_status"]
    /\ status_report' = [status_report EXCEPT
                             ![r] = IF is_processing THEN "true" ELSE "false"]
    /\ response' = [response EXCEPT ![r] = 200]
    /\ req_pc' = [req_pc EXCEPT ![r] = "done"]
    /\ UNCHANGED <<processing_lock, is_processing, startupVars, liveVars, backfillVars,
                   analyzerVars, archiveVars, filterVars, callVars>>

\* The application serving requests, after a start that loaded nothing.
NextApp ==
    \/ \E r \in Requests : ResetProgressRoute(r)
    \/ \E r \in Requests : ResetProgressCompletes(r)
    \/ \E r \in Requests : UpdateHistoricalDataRoute(r)
    \/ \E r \in Requests : UpdateHistoricalDataCompletes(r)
    \/ \E all_trips \in Fetches : FetchReturns(all_trips)
    \/ \E month_year \in DOMAIN monthly_data : WriteMonthlyFile(month_year)
    \/ ExtendHistorical

SpecApp == Init /\ [][NextApp]_vars

\* The application with jobs that fail and with /processing_status.
NextStatus ==
    \/ \E r \in Requests : ResetProgressRoute(r)
    \/ \E r \in Requests : ResetProgressCompletes(r)
    \/ \E r \in Requests : ResetProgressCancelled(r)
    \/ \E r \in Requests : UpdateHistoricalDataRoute(r)
    \/ \E r \in Requests : UpdateHistoricalDataCompletes(r)
    \/ \E r \in Requests : UpdateHistoricalDataFails(r)
    \/ \E r \in Requests : ProcessingStatus(r)
    \/ \E all_trips \in Fetches : FetchReturns(all_trips)
    \/ \E month_year \in DOMAIN monthly_data : WriteMonthlyFile(month_year)
    \/ \E month_year \in DOMAIN monthly_data, opened \in BOOLEAN :
          WriteFails(month_year, opened)
    \/ ExtendHistorical

SpecStatus == Init /\ [][NextStatus]_vars

\* update_progress as one function of the traveled set, the batch and the
\* core count: chunk, map, union.
UpdateProgressResult(traveled, routes, cores) ==
    UnionResults(traveled,
                 [k \in 1..Len(Chunks(routes, cores)) |->
                     Returned(ProcessChunk(Chunks(routes, cores)[k].chunk))])

\* ------------------------------------------------------------ claims C1-C6
\* Percentages as rationals with positive denominators.
PercentLeq(a, b) == a[1] * b[2] <= b[1] * a[2]
PercentLess(a, b) == a[1] * b[2] < b[1] * a[2]

\* A step of reset_progress.
ResetStep == pc = "idle" /\ pc' = "idle" /\ last_op' = "reset"
\* The step in which update_progress unions the results and returns.
ReduceStep == pc = "map" /\ pc' = "idle"
\* update_progress has returned and nothing was called since.
UpdateReturned == pc = "idle" /\ last_op = "update"

\* C1: every member of traveled_segments is a row of the segment table built
\* at network load, after any calls of update_progress and reset_progress.
C1_TraveledWithinSegments == traveled_segments \subseteq SegmentIndex
C1_Witness == UpdateReturned /\ before # {} /\ traveled_segments # before

\* C2: the traveled set is add-only: every step other than reset_progress
\* leaves a superset of the set before it.
C2_AddOnly == [][~ResetStep => traveled_segments \subseteq traveled_segments']_vars
C2_Witness ==
    /\ UpdateReturned
    /\ before # {}
    /\ before \subseteq traveled_segments
    /\ Cardinality(traveled_segments) > Cardinality(before)

\* C3: update_progress(R) run again right after update_progress(R) changes
\* neither the traveled set nor the percentage it returns.
C3_Idempotent ==
    [][(ReduceStep /\ repeat) =>
          (traveled_segments' = traveled_segments /\ progress' = progress)]_vars
C3_Witness ==
    /\ UpdateReturned
    /\ repeat
    /\ Len(new_routes) >= 2
    /\ traveled_segments # {}

\* The routes of a batch processed one at a time, in order.
RECURSIVE OneAtATime(_, _)
OneAtATime(traveled, routes) ==
    IF routes = <<>> THEN traveled
    ELSE OneAtATime(traveled \cup ProcessRoute(Head(routes)), Tail(routes))

\* C4: whatever the chunks and the order in which the workers return, the
\* traveled set after update_progress is the one that processing the routes
\* one at a time from the same starting set gives.
C4_OrderIndependent ==
    UpdateReturned => traveled_segments = OneAtATime(before, new_routes)
C4_Witness ==
    /\ UpdateReturned
    /\ Len(Chunks(new_routes, cpu)) >= 2
    /\ \E j, k \in 1..Len(results) : results[j].value # results[k].value
    /\ Cardinality(traveled_segments) >= 2

\* C5: the percentage of calculate_progress never decreases in a step other
\* than reset_progress.
C5_Monotonic ==
    [][~ResetStep => PercentLeq(CalculateProgress(traveled_segments),
                                CalculateProgress(traveled_segments'))]_vars
C5_Witness ==
    /\ UpdateReturned
    /\ before # {}
    /\ PercentLess(CalculateProgress(before), progress)

\* update_progress called once per route, in order, each call on its own.
RECURSIVE Incrementally(_, _, _)
Incrementally(traveled, routes, cores) ==
    IF routes = <<>> THEN traveled
    ELSE Incrementally(UpdateProgressResult(traveled, <<Head(routes)>>, cores),
                       Tail(routes), cores)

\* C6: reset_progress followed by one update_progress over a batch leaves the
\* traveled set that update_progress on each route incrementally from the
\* empty set gives.
C6_ResetEquivalence ==
    (UpdateReturned /\ prev_op = "reset") =>
        traveled_segments = Incrementally({}, new_routes, cpu)
C6_Witness ==
    /\ UpdateReturned
    /\ prev_op = "reset"
    /\ Len(new_routes) >= 2
    /\ Cardinality(traveled_segments) >= 2

\* ----------------------------------------------------------------- claim C7
\* C7: when POST /reset_progress answers 200, the traveled set is the match
\* of all loaded historical routes.
C7_ResetRecomputes ==
    [][\A r \in Requests :
          (req_pc[r] = "to_thread" /\ req_pc'[r] = "done" /\ response'[r] = 200)
          => traveled_segments' = ProcessChunk(RoutesOf(historical_geojson_features'))]_vars

\* ------------------------------------------------------------ claims C8-C9
\* The first second of a month.
MonthStart(y, m) == DaysFromCivil(y, m, 1) * 86400

\* The timestamp lies in the UTC month that the key "YYYY-MM" names.
InMonthOfKey(key, timestamp) ==
    LET y == 1000 * DigitValue(key[1]) + 100 * DigitValue(key[2])
               + 10 * DigitValue(key[3]) + DigitValue(key[4])
        m == 10 * DigitValue(key[6]) + DigitValue(key[7])
    IN  /\ Len(key) = 7
        /\ key[5] = "-"
        /\ m \in 1..12
        /\ MonthStart(y, m) <= timestamp
        /\ timestamp < (IF m = 12 THEN MonthStart(y + 1, 1) ELSE MonthStart(y, m + 1))

\* The month key in the name of a shard file.
KeyInFileName(f) == SubSeq(f, Len(HistoricalPrefix) + 1, Len(f) - Len(GeojsonSuffix))

\* C8: each shard holds one copy of each timestamp, in memory and on disk,
\* after any ingests.
C8_OneCopyPerTimestamp ==
    /\ \A k \in DOMAIN monthly_data : \A i, j \in 1..Len(monthly_data[k]) :
          monthly_data[k][i].timestamp = monthly_data[k][j].timestamp => i = j
    /\ \A f \in DOMAIN files : \A i, j \in 1..Len(files[f]) :
          files[f][i].timestamp = files[f][j].timestamp => i = j

\* C9: every feature of shard m, in memory and on disk, has a timestamp in
\* the UTC month m; no feature is in two shards; every feature of the list
\* is in a shard.
C9_ShardIsUtcMonth ==
    /\ \A k \in DOMAIN monthly_data : \A i \in 1..Len(monthly_data[k]) :
          InMonthOfKey(k, monthly_data[k][i].timestamp)
    /\ \A f \in MonthlyFiles(files) : \A i \in 1..Len(files[f]) :
          InMonthOfKey(KeyInFileName(f), files[f][i].timestamp)
    /\ \A k1, k2 \in DOMAIN monthly_data :
          \A i \in 1..Len(monthly_data[k1]), j \in 1..Len(monthly_data[k2]) :
             monthly_data[k1][i] = monthly_data[k2][j] => k1 = k2
    /\ \A i \in 1..Len(historical_geojson_features) :
          \E k \in DOMAIN monthly_data : \E j \in 1..Len(monthly_data[k]) :
             monthly_data[k][j] = historical_geojson_features[i]
C9_Witness ==
    /\ handler_pc = "idle"
    /\ Cardinality(DOMAIN monthly_data) = 2
    /\ Cardinality(MonthlyFiles(files)) = 2
    /\ \A f \in MonthlyFiles(files) : files[f] # <<>>
    /\ Len(historical_geojson_features) >= 2
    /\ runs = 1

\* ---------------------------------------------------------------- claim C10
\* The day number a date string starts with, read from its first ten
\* characters.
DayOfString(str) ==
    DaysFromCivil(Number(SubSeq(str, 1, 4)), Number(SubSeq(str, 6, 7)),
                  Number(SubSeq(str, 9, 10)))
StartsWithDate(str) ==
    /\ Len(str) >= 10
    /\ IsDigits(SubSeq(str, 1, 4)) /\ IsDigits(SubSeq(str, 6, 7))
    /\ IsDigits(SubSeq(str, 9, 10))

\* The stored features from the first second of the start day to the last
\* second of the end day, in the order of the list.
InDateRange(features, start_date, end_date) ==
    SelectSeq(features,
              LAMBDA f : /\ DayOfString(start_date) * SecondsPerDay <= f.timestamp
                         /\ f.timestamp <= DayOfString(end_date) * SecondsPerDay + 86399)

FilterStep == filterVars' # filterVars

\* C10: a call of filter_geojson_features(start, end) with dates, no bounds
\* and no boundary returns exactly the stored features whose timestamp is
\* from start_of_day(start) to end_of_day(end), both ends included.
C10_DateRangeFilter ==
    [][(/\ FilterStep
        /\ StartsWithDate(filter_query'.start_date)
        /\ StartsWithDate(filter_query'.end_date))
       => filter_result' =
             FilterReturned(InDateRange(historical_geojson_features,
                                        filter_query'.start_date,
                                        filter_query'.end_date))]_vars

\* ---------------------------------------------------------------- claim C11
\* The month named by the key has a second in the range from lo to hi.
KeyOverlaps(key, lo, hi) ==
    \E t \in {lo, MonthStart(Number(SubSeq(key, 1, 4)), Number(SubSeq(key, 6, 7)))} :
        lo <= t /\ t <= hi /\ InMonthOfKey(key, t)

\* The in-range features of the shards named, shard after shard.
RECURSIVE InRangeOfShards(_, _, _, _)
InRangeOfShards(keys, monthly, start_date, end_date) ==
    IF keys = <<>> THEN <<>>
    ELSE InDateRange(monthly[Head(keys)], start_date, end_date)
            \o InRangeOfShards(Tail(keys), monthly, start_date, end_date)

ExportStep ==
    <<export_query, export_scanned, export_result>>'
        # <<export_query, export_scanned, export_result>>

\* C11: an export over the days start..end hands to the filter exactly the
\* shards whose month overlaps the range, each once, and returns every
\* in-range feature of those shards once.
C11_ScansOverlappingShards ==
    [][(/\ ExportStep
        /\ export_query'.start_date \in {DayAugust31, DaySeptember1}
        /\ export_query'.end_date \in {DayAugust31, DaySeptember1})
       => LET lo == DayOfString(export_query'.start_date) * SecondsPerDay
              hi == DayOfString(export_query'.end_date) * SecondsPerDay + 86399
              overlapping == {k \in DOMAIN monthly_data : KeyOverlaps(k, lo, hi)}
          IN  /\ export_scanned' = SortedFiles(overlapping)
              /\ export_result' =
                    FilterReturned(InRangeOfShards(SortedFiles(overlapping), monthly_data,
                                                   export_query'.start_date,
                                                   export_query'.end_date))]_vars

\* ---------------------------------------------------------------- claim C12
PercentIs(p, n) == p[1] = n * p[2]

\* C12: on the network of two segments of 100 m and 150 m, update_progress
\* with a route that matches only the first segment returns 40; with a route
\* that matches only the second, after that, 100; and with the first route
\* again after reset_progress, 40.
C12_TwoSegmentPercentages ==
    (UpdateReturned /\ streets_gdf = Networks[1]) =>
        /\ (before = {} /\ new_routes = <<RouteA>>)
              => (traveled_segments = {0} /\ PercentIs(progress, 40))
        /\ (before = {0} /\ new_routes = <<RouteB>>)
              => (traveled_segments = {0, 1} /\ PercentIs(progress, 100))
        /\ (prev_op = "reset" /\ new_routes = <<RouteA>>) => PercentIs(progress, 40)
C12_Witness ==
    /\ UpdateReturned
    /\ streets_gdf = Networks[1]
    /\ segments_df[1].length = 100 /\ segments_df[2].length = 150
    /\ prev_op = "reset"
    /\ new_routes = <<RouteA>>
    /\ PercentIs(progress, 40)

\* ---------------------------------------------------------------- claim C13
TotalLength == SumLength(SegmentIndex)

\* C13: with a total segment length of 0, update_progress does not raise in
\* calculate_progress and returns 0; with no street within the boundary,
\* analyze_coverage does not raise and its percentage is 0; whatever the
\* traveled set.
C13_NoDivisionByZero ==
    /\ (pc = "idle" /\ cpu >= 2 /\ last_op \in {"update", "raised"} /\ TotalLength = 0)
          => (last_op = "update" /\ progress[2] # 0 /\ PercentIs(progress, 0))
    /\ progress[2] # 0
    /\ coverage_result.raised = ""
    /\ coverage_result.coverage_percentage[2] # 0
    /\ (coverage_arg # "" /\ coverage_result.total_streets = 0)
          => PercentIs(coverage_result.coverage_percentage, 0)
C13_Witness ==
    /\ UpdateReturned
    /\ TotalLength = 0
    /\ traveled_segments = {0, 1}
    /\ coverage_arg = "city_limits"
    /\ coverage_result.total_streets = 0
    /\ coverage_result.raised = ""

\* ---------------------------------------------------------------- claim C14
\* The requests whose job (update_historical_data or reset and recompute)
\* is running.
Running == {r \in Requests : req_pc[r] \in {"ingest", "to_thread"}}

\* C14: at most one of the jobs of /update_historical_data and
\* /reset_progress runs at a time, it holds the processing lock, and the
\* steps of an ingest are those of the one running /update_historical_data.
C14_OneJobAtATime ==
    /\ Cardinality(Running) <= 1
    /\ \A r \in Running : processing_lock = r /\ is_processing
    /\ handler_pc # "idle" => \E r \in Requests : req_pc[r] = "ingest"
C14_Witness ==
    \E r0, r1, r2 \in Requests :
        /\ endpoint[r0] = "/reset_progress" /\ response[r0] = 200
        /\ req_pc[r1] = "ingest" /\ handler_pc = "write" /\ to_write # {}
        /\ req_pc[r2] = "new"

\* ---------------------------------------------------------------- claim C15
\* C15: from the start of update_progress to its union loop, while workers
\* return their sets, the traveled set is the one update_progress started
\* with; the union loop then adds the sets returned.
C15_WorkersLeaveTraveled ==
    /\ pc = "map" => traveled_segments = before
    /\ UpdateReturned => traveled_segments = UnionResults(before, results)
C15_Witness ==
    /\ pc = "map"
    /\ \E k \in 1..Len(results) : results[k].done /\ ~(results[k].value \subseteq before)
    /\ \E k \in 1..Len(results) : ~results[k].done
    /\ traveled_segments = before

\* ---------------------------------------------------------------- claim C16
\* The routes of a batch that match without an exception.
RECURSIVE MatchOfSound(_)
MatchOfSound(routes) ==
    IF routes = <<>> THEN {}
    ELSE (IF RouteRaises(Head(routes)) THEN {} ELSE ProcessRoute(Head(routes)))
            \cup MatchOfSound(Tail(routes))

\* C16: update_progress over a batch with a route whose matching fails
\* completes, and the traveled set gains the matches of the other routes.
C16_FailingRouteSkipped ==
    (/\ pc = "idle" /\ cpu >= 2 /\ last_op \in {"update", "raised"}
     /\ \E i \in 1..Len(new_routes) : RouteRaises(new_routes[i]))
    => (last_op = "update" /\ traveled_segments = before \cup MatchOfSound(new_routes))

\* ---------------------------------------------------------------- claim C17
\* update_progress has just ended without reaching the union loop.
EndedEarly == pc' = "idle" /\ last_op' \in {"raised", "cancelled"}

\* The job that ended early is started again with the same routes.
Rerun ==
    /\ pc = "idle" /\ pc' = "map"
    /\ last_op \in {"raised", "cancelled"}
    /\ new_routes' = new_routes

\* C17: an update_progress that fails or is cancelled before the union loop
\* leaves the traveled set as it was before the job, the same job started
\* again starts from that set, and when it completes the set is the one an
\* uninterrupted run gives from there.
C17_FailedJobLeavesTraveled ==
    [][/\ EndedEarly => traveled_segments' = before'
       /\ Rerun => traveled_segments' = before
       /\ (ReduceStep /\ last_op' = "update" /\ prev_op \in {"raised", "cancelled"})
            => traveled_segments' = UpdateProgressResult(before, new_routes, cpu)]_vars

\* A cancelled job with two routes was run again and added segments.
C17_Witness ==
    /\ UpdateReturned /\ prev_op = "cancelled"
    /\ Len(new_routes) = 2 /\ traveled_segments # before
    /\ \E k \in 1..Len(results) : results[k].value # {}

\* ---------------------------------------------------------------- claim C18
\* The legs of a route.
Legs(route) == {<<route[i], route[i + 1]>> : i \in 1..(Len(route) - 1)}

\* _process_route has returned a set for route_arg.
RouteReturned == Len(route_arg) >= 2 /\ ~RouteRaises(route_arg)

\* C18: the set _process_route returns for a route holds every segment whose
\* geometry intersects a leg of the route, also when both ends of the leg lie
\* outside waco_box.
C18_MatchComplete ==
    RouteReturned =>
        \A idx \in SegmentIndex :
            (\E leg \in Legs(route_arg) : Intersects(segments_df[idx + 1].geometry, leg))
                => idx \in route_result.segments

\* ---------------------------------------------------------------- claim C19
\* Every point of the route lies outside waco_box.
AllOutside(route) ==
    \A i \in 1..Len(route) :
        /\ Len(route[i]) = 2
        /\ \/ route[i][1] <= waco_bbox[1] \/ route[i][1] >= waco_bbox[3]
           \/ route[i][2] <= waco_bbox[2] \/ route[i][2] >= waco_bbox[4]

\* C19: _process_route returns the empty set for a route whose points all lie
\* outside waco_box, and update_progress with that route alone returns the
\* traveled set it started from.
C19_OutsideRouteMatchesNothing ==
    (route_arg # <<>> /\ AllOutside(route_arg)) =>
        /\ route_result = [raised |-> "", segments |-> {}]
        /\ \A cores \in 2..MaxCores :
              UpdateProgressResult(traveled_segments, <<route_arg>>, cores)
                  = traveled_segments

\* A route outside waco_box with a leg through a segment was processed.
C19_Witness ==
    /\ Len(route_arg) = 2 /\ AllOutside(route_arg)
    /\ \E idx \in SegmentIndex :
          Intersects(segments_df[idx + 1].geometry, <<route_arg[1], route_arg[2]>>)
    /\ route_result.segments = {}

\* ---------------------------------------------------------------- claim C20
\* Every feature of the list has two coordinates or more.
TwoPointsOrMore(features) ==
    \A i \in 1..Len(features) : Len(features[i].coordinates) >= 2

\* C20: the features that create_geojson_features_from_trips returned, those
\* of the archive (the list, the months, the files) have two coordinates or
\* more, and _process_route returns the empty set for a route of fewer.
C20_ShortRoutesRejected ==
    /\ TwoPointsOrMore(new_features)
    /\ TwoPointsOrMore(historical_geojson_features)
    /\ \A month_year \in DOMAIN monthly_data : TwoPointsOrMore(monthly_data[month_year])
    /\ \A f \in DOMAIN files : TwoPointsOrMore(files[f])
    /\ Len(route_arg) < 2 => route_result = [raised |-> "", segments |-> {}]

\* A fetch with the one-point trip was stored, and a one-point route processed.
C20_Witness ==
    /\ Len(route_arg) = 1
    /\ runs > 0 /\ handler_pc = "idle"
    /\ historical_geojson_features # <<>>
    /\ \E i \in 1..Len(historical_geojson_features) :
          MonthYear(historical_geojson_features[i].timestamp) = MonthYear(TimeSeptember)

\* ---------------------------------------------------------------- claim C21
\* The rows of segments_df that come before those of street s.
RowsBefore(s) ==
    LET RECURSIVE Count(_)
        Count(k) == IF k = 0 THEN 0 ELSE Count(k - 1) + Len(streets_gdf[k].coords) - 1
    IN  Count(s - 1)

\* No two streets of the network have the same street_id.
UniqueStreetIds ==
    \A s, t \in 1..Len(streets_gdf) :
        streets_gdf[s].street_id = streets_gdf[t].street_id => s = t

\* C21: a street of n vertices has n - 1 rows in segments_df, in vertex order,
\* with the ids street_id_0 .. street_id_(n-2); building again from the same
\* streets gives the same ids; with unique street_ids no two rows share an id.
C21_SegmentationDeterministic ==
    /\ Len(segments_df) = RowsBefore(Len(streets_gdf) + 1)
    /\ \A s \in 1..Len(streets_gdf) :
          \A k \in 0..(Len(streets_gdf[s].coords) - 2) :
              LET row == segments_df[RowsBefore(s) + k + 1]
              IN  /\ row.street_id = streets_gdf[s].street_id
                  /\ row.segment_id = Str(streets_gdf[s].street_id) \o <<"_">> \o Str(k)
                  /\ row.geometry = <<streets_gdf[s].coords[k + 1],
                                      streets_gdf[s].coords[k + 2]>>
    /\ [idx \in DOMAIN segments_df |-> segments_df[idx].segment_id]
          = [idx \in DOMAIN ProcessStreetsIntoSegments(streets_gdf) |->
                ProcessStreetsIntoSegments(streets_gdf)[idx].segment_id]
    /\ UniqueStreetIds =>
          \A i, j \in DOMAIN segments_df :
              segments_df[i].segment_id = segments_df[j].segment_id => i = j

\* A network of two streets, one of three vertices, in use after an update.
C21_Witness ==
    /\ streets_gdf = Networks[2] /\ Len(segments_df) = 3 /\ UniqueStreetIds
    /\ segments_df[2].segment_id = <<"1", "_", "1">>
    /\ UpdateReturned

\* ---------------------------------------------------------------- claim C22
\* get_progress_geojson has just returned.
ProgressStep == progress_arg' # progress_arg \/ progress_geojson' # progress_geojson

\* C22: the features get_progress_geojson(B) returns are those of the rows of
\* segments_df that intersect B, none else and none missing, and the traveled
\* property of each is the membership of its row in traveled_segments.
C22_ProgressGeojsonBoundary ==
    [][ProgressStep =>
        /\ \A k \in DOMAIN progress_geojson' :
              \E idx \in RowsInLimits(progress_arg') :
                  /\ progress_geojson'[k].segment_id = segments_df[idx + 1].segment_id
                  /\ progress_geojson'[k].geometry = segments_df[idx + 1].geometry
                  /\ progress_geojson'[k].traveled = (idx \in traveled_segments)
        /\ \A idx \in RowsInLimits(progress_arg') :
              \E k \in DOMAIN progress_geojson' :
                  progress_geojson'[k].segment_id = segments_df[idx + 1].segment_id
        /\ Len(progress_geojson') = Cardinality(RowsInLimits(progress_arg'))]_vars

\* With segment 0 traveled, the collection for a boundary that only segment 0
\* of two intersects holds that segment alone, flagged traveled.
C22_Witness ==
    /\ progress_arg = "downtown" /\ streets_gdf = Networks[1]
    /\ traveled_segments = {0}
    /\ Len(progress_geojson) = 1 /\ progress_geojson[1].traveled
    /\ progress_geojson[1].segment_id = <<"1", "_", "0">>

\* ---------------------------------------------------------------- claim C23
\* get_untraveled_streets has just returned.
UntraveledStep ==
    untraveled_arg' # untraveled_arg \/ untraveled_streets' # untraveled_streets

\* C23: get_untraveled_streets(B) returns a row for a street exactly when a
\* segment of the street is not in traveled_segments and intersects B, and no
\* geometry of a traveled segment is part of the geometry of its street's row.
C23_UntraveledStreets ==
    [][UntraveledStep =>
        /\ \A street_id \in {segments_df[idx + 1].street_id : idx \in SegmentIndex} :
              (\E k \in DOMAIN untraveled_streets' :
                    untraveled_streets'[k].street_id = street_id)
              <=> (\E idx \in RowsInLimits(untraveled_arg') \ traveled_segments :
                      segments_df[idx + 1].street_id = street_id)
        /\ \A k \in DOMAIN untraveled_streets' :
              /\ \A idx \in traveled_segments :
                    segments_df[idx + 1].street_id = untraveled_streets'[k].street_id
                        => segments_df[idx + 1].geometry \notin untraveled_streets'[k].geometry
              /\ \A g \in untraveled_streets'[k].geometry :
                    \E idx \in RowsInLimits(untraveled_arg') \ traveled_segments :
                        /\ segments_df[idx + 1].geometry = g
                        /\ segments_df[idx + 1].street_id = untraveled_streets'[k].street_id]_vars

\* With segment 0 of street A traveled, the street is returned with the
\* geometry of segment 1 alone.
C23_Witness ==
    /\ untraveled_arg = "city_limits" /\ streets_gdf = Networks[1]
    /\ traveled_segments = {0}
    /\ Len(untraveled_streets) = 1
    /\ untraveled_streets[1].geometry = {segments_df[2].geometry}

\* ---------------------------------------------------------------- claim C24
\* analyze_coverage has just returned.
CoverageStep ==
    /\ coverage_arg' # coverage_arg \/ coverage_result' # coverage_result
    /\ coverage_result'.raised = ""

\* The streets with a segment in traveled_segments that lies within the
\* boundary.
TraveledStreetIds(waco_boundary) ==
    {segments_df[idx + 1].street_id : idx \in traveled_segments \cap RowsInLimits(waco_boundary)}

\* The part of C24 on what counts as a traveled street.
TraveledStreetsCounted ==
    [][CoverageStep =>
        coverage_result'.traveled_streets
            = Cardinality(TraveledStreetIds(coverage_arg'))]_vars

\* C24: traveled_streets of analyze_coverage is the number of streets with a
\* traveled segment within the boundary, and it never exceeds total_streets.
C24_TraveledStreetsWithinTotal ==
    [][CoverageStep =>
        /\ coverage_result'.traveled_streets
              = Cardinality(TraveledStreetIds(coverage_arg'))
        /\ coverage_result'.traveled_streets <= coverage_result'.total_streets]_vars

\* ---------------------------------------------------------------- claim C25
\* C25: for a boundary, the coverage_percentage of analyze_coverage is 100
\* times the summed length of the traveled segments that intersect the
\* boundary over the summed length of all segments that intersect it.
C25_PercentageByLength ==
    [][(CoverageStep /\ coverage_arg' # "none"
            /\ SumLength(RowsInLimits(coverage_arg')) > 0) =>
        coverage_result'.coverage_percentage[1] * SumLength(RowsInLimits(coverage_arg'))
            = 100 * SumLength(traveled_segments \cap RowsInLimits(coverage_arg'))
                  * coverage_result'.coverage_percentage[2]]_vars

\* ---------------------------------------------------------------- claim C26
\* The last call of the filter was one with a boundary, and it returned.
ClipReturned == "features" \in DOMAIN filter_query /\ filter_result.raised = ""

\* The timestamp lies from the first second of the start day to the last
\* second of the end day.
TimestampInRange(timestamp, start_date, end_date) ==
    /\ DayOfString(start_date) * SecondsPerDay <= timestamp
    /\ timestamp <= DayOfString(end_date) * SecondsPerDay + (SecondsPerDay - 1)

\* The lines and points a returned geometry is made of.
PartsOf(feature) ==
    IF feature.type = "LineString" THEN <<feature.coordinates>> ELSE feature.coordinates

\* C26: every feature the filter returns is one of the features it was given
\* that passes the timestamp test, the bounds test when bounds are given, and,
\* when filter_waco is set and the boundary is loaded, has a non-empty
\* intersection with the boundary, which is the geometry returned.
C26_FilterTests ==
    ClipReturned =>
        \A k \in DOMAIN filter_result.features :
            \E i \in DOMAIN filter_query.features :
                LET returned == filter_result.features[k]
                    feature == filter_query.features[i]
                    waco_limits == BoundaryFile(filter_query.waco_boundary)
                IN  /\ returned.timestamp = feature.timestamp
                    /\ TimestampInRange(feature.timestamp, filter_query.start_date,
                                        filter_query.end_date)
                    /\ filter_query.bounds # None
                          => RouteIntersectsBox(feature.coordinates, filter_query.bounds)
                    /\ IF filter_query.filter_waco
                          /\ filter_query.waco_boundary \in BoundaryFilesPresent
                       THEN /\ "type" \in DOMAIN returned
                            /\ ClipParts(waco_limits, feature.coordinates, 1, <<>>) # <<>>
                            /\ PartsOf(returned)
                                  = ClipParts(waco_limits, feature.coordinates, 1, <<>>)
                       ELSE returned = feature

\* ---------------------------------------------------------------- claim C27
\* C27: a call that asks for filtering by a named boundary that cannot be
\* loaded, with a feature in the date range and no bounds, ends in an error:
\* it does not return features.
C27_MissingBoundaryIsAnError ==
    (/\ "features" \in DOMAIN filter_query
     /\ filter_query.filter_waco
     /\ filter_query.waco_boundary \notin BoundaryFilesPresent
     /\ filter_query.bounds = None
     /\ \E i \in DOMAIN filter_query.features :
           TimestampInRange(filter_query.features[i].timestamp, filter_query.start_date,
                            filter_query.end_date))
    => filter_result.raised # "" /\ filter_result.features = <<>>

\* ---------------------------------------------------------------- claim C28
\* C28: every shard file in static/ holds a whole document, the one before
\* the ingestion or the new one, never an empty or partial one, also when an
\* ingestion fails or is interrupted.
C28_ShardWritesAllOrNothing ==
    \A f \in MonthlyFiles(files) : f \notin truncated /\ files[f] # <<>>

\* ---------------------------------------------------------------- claim C29
\* update_historical_data has just ended.
UpdateEnds == handler_pc \in {"fetch", "write"} /\ handler_pc' = "idle"

\* load_historical_data has just returned, without a call of
\* update_historical_data, after reading static/.
LoadReturns ==
    /\ handler_pc = "idle" /\ handler_pc' = "idle"
    /\ historical_geojson_features = <<>>
    /\ outcome' = "returned"

\* C29: update_historical_data returns only when every month was written to
\* its file, and raises when it stops before; load_historical_data returns
\* only when every shard file was read.  A failure is never a return.
C29_IOFailureRaised ==
    [][/\ (UpdateEnds /\ handler_pc = "write" /\ to_write # {}) => outcome' = "raised"
       /\ (UpdateEnds /\ outcome' # "raised") =>
             \/ new_features' = <<>>
             \/ \A month_year \in DOMAIN monthly_data' :
                   /\ ShardFileName(month_year) \in DOMAIN files' \ truncated'
                   /\ files'[ShardFileName(month_year)] = monthly_data'[month_year]
       /\ LoadReturns =>
             /\ truncated \cap MonthlyFiles(files) = {}
             /\ historical_geojson_features'
                   = LoadedFeatures(files, SortedFiles(MonthlyFiles(files)))]_vars

\* After a restart, a load has raised on a file left without a document.
C29_Witness ==
    /\ outcome = "raised" /\ handler_pc = "idle"
    /\ new_features = <<>>
    /\ truncated \cap MonthlyFiles(files) # {}

\* ---------------------------------------------------------------- claim C30
\* The months of the features of the running or last ingestion.
NewMonths(features) == {MonthYear(features[i].timestamp) : i \in 1..Len(features)}

MaxChunkBatch == 5
ChunkBatches == SeqsUpTo({RouteA, RouteB}, MaxChunkBatch)

NextChunks ==
    \/ \E routes \in ChunkBatches : UpdateProgressStart(routes)
    \/ \E routes \in ChunkBatches : UpdateProgressZeroDivision(routes)
    \/ UpdateProgressCancelled

SpecChunks == Init /\ [][NextChunks]_vars

\* The chunks of a list, joined in order.
RECURSIVE Joined(_)
Joined(chunks) ==
    IF chunks = <<>> THEN <<>>
    ELSE chunks[1].chunk \o Joined(Tail(chunks))

\* C31: update_progress splits a batch into at most (cores - 1) chunks, for
\* every batch length and every core count of at least 2.
C31_AtMostCoresMinusOneChunks ==
    pc = "map" => Len(results) <= cpu - 1

\* C32: the chunks are a partition of the batch: while the pool works on a
\* batch, there is one result slot per chunk, no chunk is empty, every
\* position of the batch lies in exactly one chunk, and the chunks joined in
\* order are the batch.
C32_ChunksPartition ==
    pc = "map" =>
        LET chunks == Chunks(new_routes, cpu)
        IN  /\ Len(results) = Len(chunks)
            /\ \A k \in 1..Len(chunks) : chunks[k].chunk # <<>>
            /\ \A i \in 1..Len(new_routes) :
                   Cardinality({k \in 1..Len(chunks) :
                       /\ chunks[k].chunk_index < i
                       /\ i <= chunks[k].chunk_index + Len(chunks[k].chunk)}) = 1
            /\ Joined(chunks) = new_routes

\* A batch of five routes on three cores: two chunks of two and one of one.
C32_Witness ==
    /\ pc = "map"
    /\ cpu = 3
    /\ Len(new_routes) = 5
    /\ Len(results) = 3
    /\ Len(Chunks(new_routes, cpu)[3].chunk) = 1


\* ---------------------------------------------------------------- claim C33
\* C33: is_processing is set only while the processing lock is held by a
\* running job; whenever the lock is free the flag is cleared, after a job
\* that succeeded and after one that failed; so /processing_status, which
\* takes the same lock, reports isProcessing = false only, and no request is
\* answered 429.
C33_FlagOnlyUnderLock ==
    /\ is_processing => /\ processing_lock \in Requests
                        /\ req_pc[processing_lock] \in {"ingest", "to_thread"}
    /\ processing_lock = 0 => ~is_processing
    /\ \A r \in Requests : status_report[r] # "true"
    /\ \A r \in Requests : response[r] # 429

\* A job failed with 500, and a later /processing_status has answered.
C33_Witness ==
    \E r0, r1 \in Requests :
        /\ r0 < r1
        /\ endpoint[r0] = "/update_historical_data" /\ response[r0] = 500
        /\ endpoint[r1] = "/processing_status" /\ status_report[r1] = "false"


\* ---------------------------------------------------------------- claim C34
\* How often a feature occurs in a list, and in the lists of all months.
Occurrences(features, feature) ==
    Cardinality({i \in 1..Len(features) : features[i] = feature})

RECURSIVE OccurrencesInMonths(_, _, _)
OccurrencesInMonths(monthly, months, feature) ==
    IF months = {} THEN 0
    ELSE LET month_year == CHOOSE k \in months : TRUE
         IN  Occurrences(monthly[month_year], feature)
             + OccurrencesInMonths(monthly, months \ {month_year}, feature)

FeaturesInMemory ==
    {historical_geojson_features[i] : i \in 1..Len(historical_geojson_features)}
        \cup UNION {{monthly_data[k][i] : i \in 1..Len(monthly_data[k])} :
                       k \in DOMAIN monthly_data}

\* C34: whenever no call of load_historical_data or update_historical_data
\* is running, also after a call that a failed shard write ended, the
\* features of all lists of monthly_data are the features of
\* historical_geojson_features, each as often in the one as in the other.
C34_ArchiveInMemoryConsistent ==
    handler_pc = "idle" =>
        \A feature \in FeaturesInMemory :
            OccurrencesInMonths(monthly_data, DOMAIN monthly_data, feature)
                = Occurrences(historical_geojson_features, feature)


\* ------------------------------------------------------------- the startup
\* A variant of the flag after the load that is set after a failed load too.
LoadedAfterLoadAlways(loaded, raised) == TRUE

\* load_historical_data_background, lines 529-534: the flag is set after the
\* await has returned; the except clause leaves the flag as it is.
LoadedAfterLoad(loaded, raised) == IF raised THEN loaded ELSE TRUE

\* load_historical_data_background, lines 525-526: the loading flag is set.
LoadBackgroundStart ==
    /\ startup_pc = "start"
    /\ historical_data_loading' = TRUE
    /\ startup_pc' = "load"
    /\ UNCHANGED <<historical_data_loaded, requestVars, liveVars, backfillVars,
                   analyzerVars, archiveVars, filterVars, callVars>>

\* The call of load_historical_data at line 529, once.
LoadBackgroundCalls ==
    /\ startup_pc = "load"
    /\ outcome = "none"
    /\ \/ LoadHistoricalData
       \/ \E n \in 1..Cardinality(DOMAIN files) : LoadFails(n)

\* Lines 529-532: load_historical_data has returned, the loaded flag is set.
LoadBackgroundSucceeds ==
    /\ startup_pc = "load"
    /\ handler_pc = "idle"
    /\ outcome = "returned"
    /\ historical_data_loaded' = LoadedAfterLoad(historical_data_loaded, FALSE)
    /\ startup_pc' = "finally"
    /\ UNCHANGED <<historical_data_loading, requestVars, liveVars, backfillVars,
                   analyzerVars, archiveVars, filterVars, callVars>>

\* Lines 533-534: load_historical_data has raised, the exception is logged.
LoadBackgroundFails ==
    /\ startup_pc = "load"
    /\ handler_pc = "idle"
    /\ outcome = "raised"
    /\ historical_data_loaded' = LoadedAfterLoad(historical_data_loaded, TRUE)
    /\ startup_pc' = "finally"
    /\ UNCHANGED <<historical_data_loading, requestVars, liveVars, backfillVars,
                   analyzerVars, archiveVars, filterVars, callVars>>

\* Lines 535-537: the finally clause clears the loading flag; startup goes on
\* and the application serves.
LoadBackgroundFinally ==
    /\ startup_pc = "finally"
    /\ historical_data_loading' = FALSE
    /\ startup_pc' = "serving"
    /\ UNCHANGED <<historical_data_loaded, requestVars, liveVars, backfillVars,
                   analyzerVars, archiveVars, filterVars, callVars>>

\* The process ends and is started again: create_app, lines 162-163, sets
\* both flags of the new application to False, the GeoJSONHandler is new and
\* static/ is as the process before left it.
ProcessStartsAgain ==
    /\ startup_pc = "serving"
    /\ handler_pc = "idle"
    /\ historical_geojson_features' = <<>>
    /\ monthly_data' = <<>>
    /\ new_features' = <<>>
    /\ outcome' = "none"
    /\ historical_data_loaded' = FALSE
    /\ historical_data_loading' = FALSE
    /\ startup_pc' = "start"
    /\ UNCHANGED <<files, handler_pc, to_write, latest_date, runs, truncated>>
    /\ UNCHANGED <<requestVars, liveVars, backfillVars, analyzerVars, filterVars, callVars>>

NextStartup ==
    \/ LoadBackgroundStart
    \/ LoadBackgroundCalls
    \/ \E all_trips \in Fetches : FetchReturns(all_trips)
    \/ \E month_year \in DOMAIN monthly_data : WriteMonthlyFile(month_year)
    \/ \E month_year \in DOMAIN monthly_data, opened \in BOOLEAN :
          WriteFails(month_year, opened)
    \/ ExtendHistorical
    \/ LoadBackgroundSucceeds
    \/ LoadBackgroundFails
    \/ LoadBackgroundFinally
    \/ ProcessStartsAgain

\* startup awaits load_historical_data_background and nothing else runs on
\* the event loop before the application serves: once the await of the load
\* has ended, the coroutine is resumed and runs to its end.
SpecStartup ==
    /\ Init
    /\ [][NextStartup]_vars
    /\ WF_vars(LoadBackgroundSucceeds)
    /\ WF_vars(LoadBackgroundFails)
    /\ WF_vars(LoadBackgroundFinally)

\* ---------------------------------------------------------------- claim C35
\* load_historical_data has ended, by returning or by raising.
LoadFinished ==
    startup_pc = "load" /\ handler_pc = "idle" /\ outcome \in {"returned", "raised"}

\* C35: in one run of the application, historical_data_loaded becomes true
\* only in a step taken after load_historical_data has returned without an
\* error, and it does not become false again; and once the background load
\* has finished, by success or by failure, historical_data_loading is
\* eventually false.
C35_LoadFlags ==
    /\ [][/\ (~historical_data_loaded /\ historical_data_loaded')
                => (startup_pc = "load" /\ handler_pc = "idle" /\ outcome = "returned")
          /\ (historical_data_loaded /\ startup_pc' # "start")
                => historical_data_loaded']_vars
    /\ LoadFinished ~> ~historical_data_loading

\* A start whose load failed on the first shard file: the application serves with
\* loaded = False and loading = False.
C35_Witness ==
    /\ startup_pc = "serving"
    /\ outcome = "raised"
    /\ files # <<>>
    /\ monthly_data = <<>>
    /\ ~historical_data_loaded
    /\ ~historical_data_loading


\* ------------------------------------------------------- the live position
\* The most points that live_trip_data holds when a call begins.
MaxLive == 3

\* What the vendor returns for the vehicle: stats.location as <<lon, lat>>
\* and stats.lastUpdated as <<seconds, milliseconds>>.
LivePlaces == {<<0, 0>>, <<1, 0>>}
LastUpdated == {<<1, 0>>, <<1, 500>>, <<2, 0>>}
VehicleStats == [location : LivePlaces, lastUpdated : LastUpdated]

\* get_latest_bouncie_data, lines 67-70: int(timestamp_dt.timestamp()) keeps
\* the whole seconds.
TimestampUnix(lastUpdated) == lastUpdated[1]

\* Lines 94-102: the new data point (of its fields, the ones read later).
NewDataPoint(stats) ==
    [longitude |-> stats.location[1],
     latitude |-> stats.location[2],
     timestamp |-> TimestampUnix(stats.lastUpdated)]

\* A variant of the test of the timestamp that finds no duplicate.
DuplicateTimestampNever(data, timestamp_unix) == FALSE

\* Lines 86-91: the last stored point has the timestamp fetched.
DuplicateTimestamp(data, timestamp_unix) ==
    data # <<>> /\ data[Len(data)].timestamp = timestamp_unix

\* A variant of the test of the coordinate that finds no duplicate.
DuplicateCoordinateNever(coordinates, new_coord) == FALSE

\* app.py, lines 304 and 511: the route has a last coordinate and it is the
\* new one.
DuplicateCoordinate(coordinates, new_coord) ==
    coordinates # <<>> /\ new_coord = coordinates[Len(coordinates)]

\* A caller (the polling task, or /live_data) calls get_latest_bouncie_data
\* and waits at its awaits of the vendor API.
GetLatestBouncieDataCalled(c) ==
    /\ live_pc[c] = "idle"
    /\ Len(live_trip_data) < MaxLive
    /\ live_pc' = [live_pc EXCEPT ![c] = "fetch"]
    /\ UNCHANGED <<live_trip_data, live_route_data, live_route_file, bouncie_data,
                   latest_return>>
    /\ UNCHANGED <<requestVars, startupVars, backfillVars, analyzerVars, archiveVars,
                   filterVars, callVars>>

\* get_latest_bouncie_data from its last await to its return, lines 67-108:
\* the timestamp is compared with the one of the last stored point; a
\* duplicate returns None, else the point is appended and returned.
VehicleReturns(c, stats) ==
    LET new_data_point == NewDataPoint(stats)
    IN  /\ live_pc[c] = "fetch"
        /\ IF DuplicateTimestamp(live_trip_data, new_data_point.timestamp)
           THEN /\ bouncie_data' = [bouncie_data EXCEPT ![c] = None]
                /\ live_pc' = [live_pc EXCEPT ![c] = "idle"]
                /\ latest_return' = [fetched |-> new_data_point, returned |-> None]
                /\ UNCHANGED live_trip_data
           ELSE /\ live_trip_data' = Append(live_trip_data, new_data_point)
                /\ bouncie_data' = [bouncie_data EXCEPT ![c] = new_data_point]
                /\ live_pc' = [live_pc EXCEPT ![c] = "route"]
                /\ latest_return' = [fetched |-> new_data_point,
                                     returned |-> new_data_point]
        /\ UNCHANGED <<live_route_data, live_route_file>>
        /\ UNCHANGED <<requestVars, startupVars, backfillVars, analyzerVars, archiveVars,
                       filterVars, callVars>>

\* get_latest_bouncie_data, lines 49-52, 57-59, 71-73 and 110-112: no vehicle
\* data, no location, or an exception: None is returned, nothing is stored.
VehicleFails(c) ==
    /\ live_pc[c] = "fetch"
    /\ bouncie_data' = [bouncie_data EXCEPT ![c] = None]
    /\ live_pc' = [live_pc EXCEPT ![c] = "idle"]
    /\ latest_return' = [fetched |-> None, returned |-> None]
    /\ UNCHANGED <<live_trip_data, live_route_data, live_route_file>>
    /\ UNCHANGED <<requestVars, startupVars, backfillVars, analyzerVars, archiveVars,
                   filterVars, callVars>>

\* app.py, lines 286-309 and 493-516: with live_route_lock held and without
\* an await, the new coordinate is compared with the last one of the route,
\* appended when it differs, and the route is saved to its file.
LiveRouteUpdate(c) ==
    LET new_coord == <<bouncie_data[c].longitude, bouncie_data[c].latitude>>
    IN  /\ live_pc[c] = "route"
        /\ IF DuplicateCoordinate(live_route_data, new_coord)
           THEN UNCHANGED <<live_route_data, live_route_file>>
           ELSE /\ live_route_data' = Append(live_route_data, new_coord)
                /\ live_route_file' = live_route_data'
        /\ live_pc' = [live_pc EXCEPT ![c] = "idle"]
        /\ UNCHANGED <<live_trip_data, bouncie_data, latest_return>>
        /\ UNCHANGED <<requestVars, startupVars, backfillVars, analyzerVars, archiveVars,
                       filterVars, callVars>>

NextLive ==
    \/ \E c \in LiveCallers : GetLatestBouncieDataCalled(c)
    \/ \E c \in LiveCallers, stats \in VehicleStats : VehicleReturns(c, stats)
    \/ \E c \in LiveCallers : VehicleFails(c)
    \/ \E c \in LiveCallers : LiveRouteUpdate(c)

SpecLive == Init /\ [][NextLive]_vars

\* ---------------------------------------------------------------- claim C36
\* C36: under every interleaving of the polling task and /live_data, the
\* live route never holds two equal coordinates next to each other, and its
\* file holds the route; the route changes only by one coordinate appended
\* that differs from its last coordinate, and that step saves the route.
C36_NoRepeatedCoordinate ==
    /\ [](\A i \in 1..(Len(live_route_data) - 1) :
              live_route_data[i] # live_route_data[i + 1])
    /\ [](live_route_file = live_route_data)
    /\ [][live_route_data' # live_route_data =>
             /\ Len(live_route_data') = Len(live_route_data) + 1
             /\ SubSeq(live_route_data', 1, Len(live_route_data)) = live_route_data
             /\ live_route_data # <<>> =>
                    live_route_data'[Len(live_route_data')]
                        # live_route_data[Len(live_route_data)]
             /\ live_route_file' = live_route_data']_vars

\* Three points stored, the first two at one place with two timestamps: the
\* route has the place once, then the other place.
C36_Witness ==
    /\ \A c \in LiveCallers : live_pc[c] = "idle"
    /\ Len(live_trip_data) = 3
    /\ live_trip_data[1].longitude = live_trip_data[2].longitude
    /\ live_trip_data[1].timestamp # live_trip_data[2].timestamp
    /\ Len(live_route_data) = 2

\* ---------------------------------------------------------------- claim C37
\* C37: live_trip_data never holds two points with the same timestamp next
\* to each other: a call of get_latest_bouncie_data whose fetched timestamp
\* is the one of the last stored point returns None and appends nothing,
\* also when another caller stored that point while this call was waiting.
C37_NoRepeatedTimestamp ==
    /\ [](\A i \in 1..(Len(live_trip_data) - 1) :
              live_trip_data[i].timestamp # live_trip_data[i + 1].timestamp)
    /\ [][\A c \in LiveCallers :
             (/\ live_pc[c] = "fetch"
              /\ live_pc'[c] # "fetch"
              /\ latest_return'.fetched # None
              /\ live_trip_data # <<>>
              /\ live_trip_data[Len(live_trip_data)].timestamp
                     = latest_return'.fetched.timestamp)
             => (bouncie_data'[c] = None /\ live_trip_data' = live_trip_data)]_vars

\* Two calls waited at the same time; one has stored its point and is about
\* to extend the route, the other fetched the same second and returned None.
C37_Witness ==
    \E c \in LiveCallers :
        /\ live_pc[c] = "route"
        /\ latest_return.fetched # None
        /\ latest_return.returned = None
        /\ bouncie_data[c].timestamp = latest_return.fetched.timestamp
        /\ live_trip_data[Len(live_trip_data)] = bouncie_data[c]


\* ------------------------------------------------------------ the backfill
\* current_date.strftime("%Y-%m-%d")
StrftimeDate(dt) ==
    StrftimeYearMonth(dt) \o <<"-", Digit(dt.date[3] \div 10), Digit(dt.date[3] % 10)>>

\* What datetime.now gives in the runs of the model: 2020-09-01T12:00:00Z
\* and 2020-09-02T23:00:00Z.
Nows == {TimeSeptember + 43200, TimeSeptember + 169200}

\* A variant of the step of the loop that stays on its day.
NextDateSame(date) == date

\* update_historical_data, line 199: current_date += timedelta(days=1).
NextDate(date) == date + SecondsPerDay

\* update_historical_data, lines 180-188: today is read and the loop begins
\* at latest_date.  The clock does not run backwards.
BackfillBegins(now) ==
    /\ handler_pc = "fetch"
    /\ backfill_run < runs
    /\ now >= today
    /\ backfill_run' = runs
    /\ today' = now
    /\ current_date' = latest_date
    /\ requested' = <<>>
    /\ backfill_pc' = "loop"
    /\ UNCHANGED <<requestVars, startupVars, liveVars, analyzerVars, archiveVars,
                   filterVars, callVars>>

\* Lines 189-199: one pass of the loop: the day of current_date is requested
\* and current_date moves on by a day.
BackfillDay ==
    /\ backfill_pc = "loop"
    /\ current_date < today
    /\ requested' = Append(requested, StrftimeDate(FromTimestamp(current_date)))
    /\ current_date' = NextDate(current_date)
    /\ UNCHANGED <<backfill_pc, backfill_run, today>>
    /\ UNCHANGED <<requestVars, startupVars, liveVars, analyzerVars, archiveVars,
                   filterVars, callVars>>

\* Line 189: the test of the loop fails, the loop is left.
BackfillEnds ==
    /\ backfill_pc = "loop"
    /\ ~(current_date < today)
    /\ backfill_pc' = "done"
    /\ UNCHANGED <<backfill_run, current_date, today, requested>>
    /\ UNCHANGED <<requestVars, startupVars, liveVars, analyzerVars, archiveVars,
                   filterVars, callVars>>

\* The trips fetched are trips of the days requested.
FetchedOfRequested(all_trips) ==
    \A i \in 1..Len(all_trips) :
        \E k \in 1..Len(requested) :
            requested[k] =
                StrftimeDate(FromTimestamp(all_trips[i][Len(all_trips[i])].timestamp))

NextBackfill ==
    \/ \E fetch_all \in BOOLEAN : UpdateHistoricalDataCall(fetch_all)
    \/ \E now \in Nows : BackfillBegins(now)
    \/ BackfillDay
    \/ BackfillEnds
    \/ \E all_trips \in Fetches :
          /\ backfill_pc = "done"
          /\ backfill_run = runs
          /\ FetchedOfRequested(all_trips)
          /\ FetchReturns(all_trips)
    \/ \E month_year \in DOMAIN monthly_data : WriteMonthlyFile(month_year)
    \/ ExtendHistorical

\* Every fetch of a day returns (or raises), so a pass of the loop that has
\* begun ends.
SpecBackfill ==
    /\ Init
    /\ [][NextBackfill]_vars
    /\ WF_vars(BackfillDay)
    /\ WF_vars(BackfillEnds)

\* ---------------------------------------------------------------- claim C38
\* The day numbers of the dates requested.
RequestedDays == [k \in 1..Len(requested) |-> DayOfString(requested[k])]

GetStreetNetwork(waco_boundary) ==
    LET rows == IF waco_boundary = "none" THEN 1..Len(streets_gdf)
                ELSE StreetsInLimits(streets_gdf, BoundaryFile(waco_boundary))
        traveled_ids == {segments_df[idx + 1].street_id : idx \in traveled_segments}
    IN  [n \in rows |-> [street_id |-> streets_gdf[n].street_id,
                         traveled |-> streets_gdf[n].street_id \in traveled_ids]]

\* The number of streets that get_street_network marks traveled.
MarkedTraveled(street_network) ==
    Cardinality({n \in DOMAIN street_network : street_network[n].traveled})

\* C39: when analyze_coverage returns, its traveled_streets is the number of
\* streets that get_street_network marks traveled for the same boundary and
\* the same traveled set.
C39_StreetReportsAgree ==
    [][CoverageStep =>
        coverage_result'.traveled_streets
            = MarkedTraveled(GetStreetNetwork(coverage_arg'))]_vars


\* ---------------------------------------------------------------- claim C40
\* A percentage from 0 to 100.
InPercentRange(p) == p[2] > 0 /\ p[1] >= 0 /\ p[1] <= 100 * p[2]

\* C40: the percentage that calculate_progress returned to the last
\* update_progress and the coverage_percentage of the last analyze_coverage
\* are from 0 to 100.
C40_PercentageInRange ==
    /\ InPercentRange(progress)
    /\ coverage_result.raised = "" => InPercentRange(coverage_result.coverage_percentage)

\* Every segment of the network traveled: calculate_progress has returned
\* 100 and analyze_coverage, without a boundary, 100.
C40_Witness ==
    /\ UpdateReturned
    /\ traveled_segments = SegmentIndex
    /\ PercentIs(progress, 100)
    /\ coverage_arg = "none"
    /\ coverage_result.total_streets >= 1
    /\ coverage_result.traveled_streets = coverage_result.total_streets
    /\ PercentIs(coverage_result.coverage_percentage, 100)

====
